---- MODULE Spec2Model ----
(***************************************************************************)
(* A model of the user-management service: the Israeli-ID checksum, the    *)
(* field validators and the sanitizer (lib/validators.py), the Marshmallow *)
(* create/update schemas (lib/schemas.py), the response templates          *)
(* (lib/messages.py), the SQLAlchemy repository over the users table       *)
(* (db/database.py, db/models.py), the sample-data script (db/init_db.py)  *)
(* the HTTP handlers (app/server.py) and the migration manager             *)
(* (db/migrations.py).                                                     *)
(*                                                                         *)
(* A Python string is a sequence of one-character strings.  A Python value *)
(* is a record [t, s]: t is "str" (s holds the characters), "none" (None), *)
(* "int" (some non-string object) or "absent" (the key is not in the       *)
(* mapping); s is <<>> unless t = "str".                                   *)
(***************************************************************************)
EXTENDS Integers, Sequences, FiniteSets, TLC

VARIABLES
    arg,        \* validator specification: the value passed to the validator
    ret,        \* validator specification: what the validator returned
    payload,    \* schema specification: the raw mapping given to load()
    loaded,     \* schema specification: outcome of load()
    response,   \* schema specification: body built by validation_error_response
    table,      \* users table: committed rows, in rowid order
    txn,        \* per session: the row written by flush() and not yet committed
    lock,       \* SQLite write lock: the process whose transaction holds it, or 0
    clock,      \* the time now() reads
    pc,         \* per process: where it is inside its repository call
    call,       \* per process: the call it is running (operation, caller, arguments)
    result,     \* outcome of the repository call that finished last (and what
                \* update_user was given)
    script,     \* per process: position in create_sample_data's loop (i = 0: not running)
    http,       \* the HTTP response of the operation that ended last, if it sent one
    hist,       \* history: per id, how many create_user calls have started, returned
                \* a record, raised IntegrityError on a stored id or were refused for
                \* a None value, and how many deletes removed a row
    nops,       \* history: how many operations have been started
    db,         \* DatabaseManager: "ready", "closed", or the driver error it meets
    listing,    \* what the last list, exists or count query returned
    limit,      \* how many operations a run may start
    applied,    \* the versions in the migrations table
    run         \* MigrationManager: the migrate or rollback call that runs or
                \* ran last (target, the applied versions it found, what is
                \* left to do, the up() and down() calls it made, what it returned)

valVars == <<arg, ret>>
schemaVars == <<payload, loaded, response>>
repoVars == <<table, txn, lock, clock, pc, call, result, script, http, hist, nops,
              db, listing, limit>>
migVars == <<applied, run>>
vars == <<arg, ret, payload, loaded, response, table, txn, lock, clock, pc, call, result, script, http,
          hist, nops, db, listing, limit, applied, run>>

----------------------------------------------------------------------------
(* Python values and strings *)

Str(s) == [t |-> "str", s |-> s]
None == [t |-> "none", s |-> <<>>]
NonString == [t |-> "int", s |-> <<>>]
Absent == [t |-> "absent", s |-> <<>>]

Digits == {"0", "1", "2", "3", "4", "5", "6", "7", "8", "9"}
Whitespace == {" "}
\* the character SUPERSCRIPT TWO, written by its code point: a digit for
\* str.isdigit(), but no decimal, so int() raises ValueError on it
SuperscriptDigits == {"U+00B2"}
\* the characters ARABIC-INDIC DIGIT ZERO to NINE, written by their code
\* points: decimal digits of another script, digits for str.isdigit() and
\* converted by int()
ArabicIndicDigits ==
    {"U+0660", "U+0661", "U+0662", "U+0663", "U+0664", "U+0665", "U+0666",
     "U+0667", "U+0668", "U+0669"}

\* int(digit) for one decimal character, of either script
DigitVal(c) ==
    CASE c = "0" -> 0 [] c = "1" -> 1 [] c = "2" -> 2 [] c = "3" -> 3
      [] c = "4" -> 4 [] c = "5" -> 5 [] c = "6" -> 6 [] c = "7" -> 7
      [] c = "8" -> 8 [] c = "9" -> 9
      [] c = "U+0660" -> 0 [] c = "U+0661" -> 1 [] c = "U+0662" -> 2
      [] c = "U+0663" -> 3 [] c = "U+0664" -> 4 [] c = "U+0665" -> 5
      [] c = "U+0666" -> 6 [] c = "U+0667" -> 7 [] c = "U+0668" -> 8
      [] c = "U+0669" -> 9

\* str.isdigit(): non-empty and every character is a digit
isdigit(s) ==
    /\ Len(s) > 0
    /\ \A i \in 1..Len(s) : s[i] \in Digits \cup ArabicIndicDigits \cup SuperscriptDigits

\* int(c) raises ValueError
int_raises(c) == c \notin Digits \cup ArabicIndicDigits

SetMin(S) == CHOOSE x \in S : \A y \in S : x <= y
SetMax(S) == CHOOSE x \in S : \A y \in S : x >= y

\* str.strip(): drop leading and trailing whitespace
strip(s) ==
    LET keep == {i \in 1..Len(s) : s[i] \notin Whitespace}
    IN  IF keep = {} THEN <<>> ELSE SubSeq(s, SetMin(keep), SetMax(keep))

\* n copies of character c
Rep(c, n) == [i \in 1..n |-> c]

----------------------------------------------------------------------------
(* lib/messages.py: ErrorMessages *)

ISRAELI_ID_EMPTY == "Israeli ID must be a non-empty string"
ISRAELI_ID_NOT_DIGITS == "Israeli ID must contain only digits"
ISRAELI_ID_WRONG_LENGTH == "Israeli ID must be exactly 9 digits"
ISRAELI_ID_INVALID_CHECKSUM == "Invalid Israeli ID checksum"
PHONE_EMPTY == "Phone number must be a non-empty string"
PHONE_NO_PLUS == "Phone number must start with +"
PHONE_WRONG_LENGTH == "Phone number must be between 8-16 characters total"
PHONE_NOT_DIGITS == "Phone number must contain only digits after +"
NAME_NOT_STRING == "Name must be a string"
NAME_EMPTY == "Name cannot be empty"
NAME_TOO_LONG == "Name must not exceed 100 characters"
ADDRESS_NOT_STRING == "Address must be a string"
ADDRESS_EMPTY == "Address cannot be empty"
ADDRESS_TOO_LONG == "Address must not exceed 200 characters"
MISSING_REQUIRED_FIELDS == "Missing required fields"
VALIDATION_FAILED == "Validation failed"

\* Marshmallow's own field messages
NOT_A_VALID_STRING == "Not a valid string."
FIELD_MAY_NOT_BE_NULL == "Field may not be null."
UNKNOWN_FIELD == "Unknown field."

NoReason == "None"

----------------------------------------------------------------------------
(* lib/validators.py: UserValidator *)

ID_LENGTH == 9
PHONE_MIN_LEN == 9
PHONE_MAX_LEN == 17
NAME_MAX_LEN == 100
ADDRESS_MAX_LEN == 200

Valid == [valid |-> TRUE, reason |-> NoReason]
Invalid(reason) == [valid |-> FALSE, reason |-> reason]
\* the call does not return: the exception leaves the validator
ValueError == "ValueError"
Raises(exc) == [valid |-> FALSE, reason |-> exc]

\* ChecksumTerm with the multipliers of even and odd indexes exchanged
ChecksumTerm_swapped(digit, i) ==
    LET multiplier == IF i % 2 = 0 THEN 2 ELSE 1
        product == DigitVal(digit) * multiplier
    IN  IF product > 9 THEN (product \div 10) + (product % 10) ELSE product

\* one step of the checksum loop: digit at 0-based index i
ChecksumTerm(digit, i) ==
    LET multiplier == IF i % 2 = 0 THEN 1 ELSE 2
        product == DigitVal(digit) * multiplier
    IN  IF product > 9 THEN (product \div 10) + (product % 10) ELSE product

RECURSIVE ChecksumTotal(_, _)
\* total after the loop has consumed the first n characters of s
ChecksumTotal(s, n) ==
    IF n = 0 THEN 0 ELSE ChecksumTotal(s, n - 1) + ChecksumTerm(s[n], n - 1)

\* expected_checksum without the final reduction modulo 10
expected_checksum_unreduced(s) == 10 - (ChecksumTotal(s, Len(s) - 1) % 10)

expected_checksum(s) == (10 - (ChecksumTotal(s, Len(s) - 1) % 10)) % 10

validate_israeli_id(id_str) ==
    IF id_str.t # "str" \/ id_str.s = <<>> THEN Invalid(ISRAELI_ID_EMPTY)
    ELSE LET s == strip(id_str.s)
         IN  IF ~isdigit(s) THEN Invalid(ISRAELI_ID_NOT_DIGITS)
             ELSE IF Len(s) # ID_LENGTH THEN Invalid(ISRAELI_ID_WRONG_LENGTH)
             ELSE IF \E i \in 1..Len(s) : int_raises(s[i]) THEN Raises(ValueError)
             ELSE IF expected_checksum(s) # DigitVal(s[Len(s)])
                  THEN Invalid(ISRAELI_ID_INVALID_CHECKSUM)
             ELSE Valid

\* validate_phone_number that tests the digits before the length
validate_phone_number_digits_first(phone) ==
    IF phone.t # "str" \/ phone.s = <<>> THEN Invalid(PHONE_EMPTY)
    ELSE LET s == strip(phone.s)
         IN  IF ~(Len(s) > 0 /\ s[1] = "+") THEN Invalid(PHONE_NO_PLUS)
             ELSE IF ~isdigit(SubSeq(s, 2, Len(s))) THEN Invalid(PHONE_NOT_DIGITS)
             ELSE IF Len(s) < PHONE_MIN_LEN \/ Len(s) > PHONE_MAX_LEN
                  THEN Invalid(PHONE_WRONG_LENGTH)
             ELSE Valid

\* validate_phone_number with the lower limit one less
validate_phone_number_min8(phone) ==
    IF phone.t # "str" \/ phone.s = <<>> THEN Invalid(PHONE_EMPTY)
    ELSE LET s == strip(phone.s)
         IN  IF ~(Len(s) > 0 /\ s[1] = "+") THEN Invalid(PHONE_NO_PLUS)
             ELSE IF Len(s) < PHONE_MIN_LEN - 1 \/ Len(s) > PHONE_MAX_LEN
                  THEN Invalid(PHONE_WRONG_LENGTH)
             ELSE IF ~isdigit(SubSeq(s, 2, Len(s))) THEN Invalid(PHONE_NOT_DIGITS)
             ELSE Valid

validate_phone_number(phone) ==
    IF phone.t # "str" \/ phone.s = <<>> THEN Invalid(PHONE_EMPTY)
    ELSE LET s == strip(phone.s)
         IN  IF ~(Len(s) > 0 /\ s[1] = "+") THEN Invalid(PHONE_NO_PLUS)
             ELSE IF Len(s) < PHONE_MIN_LEN \/ Len(s) > PHONE_MAX_LEN
                  THEN Invalid(PHONE_WRONG_LENGTH)
             ELSE IF ~isdigit(SubSeq(s, 2, Len(s))) THEN Invalid(PHONE_NOT_DIGITS)
             ELSE Valid

\* validate_name that measures the value as given
validate_name_untrimmed(name) ==
    IF name.t # "str" THEN Invalid(NAME_NOT_STRING)
    ELSE IF name.s = <<>> \/ strip(name.s) = <<>> THEN Invalid(NAME_EMPTY)
    ELSE IF Len(name.s) > NAME_MAX_LEN THEN Invalid(NAME_TOO_LONG)
    ELSE Valid

validate_name(name) ==
    IF name.t # "str" THEN Invalid(NAME_NOT_STRING)
    ELSE IF name.s = <<>> \/ strip(name.s) = <<>> THEN Invalid(NAME_EMPTY)
    ELSE IF Len(strip(name.s)) > NAME_MAX_LEN THEN Invalid(NAME_TOO_LONG)
    ELSE Valid

validate_address(address) ==
    IF address.t # "str" THEN Invalid(ADDRESS_NOT_STRING)
    ELSE IF address.s = <<>> \/ strip(address.s) = <<>> THEN Invalid(ADDRESS_EMPTY)
    ELSE IF Len(strip(address.s)) > ADDRESS_MAX_LEN THEN Invalid(ADDRESS_TOO_LONG)
    ELSE Valid

\* sanitize_user_data that copies every value as it is
sanitize_user_data_nostrip(user_data) ==
    [k \in DOMAIN user_data |-> user_data[k]]

\* sanitize_user_data that removes leading whitespace only
sanitize_user_data_leading(user_data) ==
    [k \in DOMAIN user_data |->
        IF user_data[k].t = "str"
        THEN LET s == user_data[k].s
                 keep == {i \in 1..Len(s) : s[i] \notin Whitespace}
             IN  Str(IF keep = {} THEN <<>> ELSE SubSeq(s, SetMin(keep), Len(s)))
        ELSE user_data[k]]

\* sanitize_user_data: every string value stripped, every other value kept
sanitize_user_data(user_data) ==
    [k \in DOMAIN user_data |->
        IF user_data[k].t = "str" THEN Str(strip(user_data[k].s)) ELSE user_data[k]]

----------------------------------------------------------------------------
(* lib/schemas.py: custom fields and the Marshmallow load pipeline *)

RequiredFields == <<"id", "name", "phone", "address">>
CreateFields == {"id", "name", "phone", "address"}
UpdateFields == {"name", "phone", "address"}
PayloadKeys == CreateFields \cup {"extra"}

\* the reason a _validate override raises with, or NoReason when it returns
FieldReason(value, verdict) ==
    IF value.t = "none" \/ value = Str(<<>>) THEN NoReason
    ELSE IF verdict.valid THEN NoReason ELSE verdict.reason

IsraeliIDField_validate(value) == FieldReason(value, validate_israeli_id(value))
PhoneNumberField_validate(value) == FieldReason(value, validate_phone_number(value))
NameField_validate(value) == FieldReason(value, validate_name(value))
AddressField_validate(value) == FieldReason(value, validate_address(value))

Field_validate(f, value) ==
    CASE f = "id" -> IsraeliIDField_validate(value)
      [] f = "phone" -> PhoneNumberField_validate(value)
      [] f = "name" -> NameField_validate(value)
      [] f = "address" -> AddressField_validate(value)

\* fields.String.deserialize for one declared field: a key that is not in the
\* input yields load_default, None is kept or refused according to
\* allow_none, a non-string is refused, and a string goes through _validate.
\* value = Absent means that nothing is stored in the result for the field.
Field_deserialize(f, allow_none, load_default, raw) ==
    IF raw.t = "absent" THEN [value |-> load_default, error |-> NoReason]
    ELSE IF raw.t = "none" THEN
        IF allow_none THEN [value |-> None, error |-> NoReason]
        ELSE [value |-> Absent, error |-> FIELD_MAY_NOT_BE_NULL]
    ELSE IF raw.t # "str" THEN [value |-> Absent, error |-> NOT_A_VALID_STRING]
    ELSE LET e == Field_validate(f, raw)
         IN  [value |-> IF e = NoReason THEN raw ELSE Absent, error |-> e]

NoFieldErrors == [k \in PayloadKeys |-> NoReason]
NoData == [k \in PayloadKeys |-> Absent]

\* what load() gives back: the loaded mapping, or the messages of the
\* ValidationError it raises (keys: the top-level keys of e.messages)
Loaded(schema, data) ==
    [schema |-> schema, ok |-> TRUE, data |-> data,
     errors |-> [fields |-> NoFieldErrors, missing_fields |-> <<>>, keys |-> {}]]
Raised(schema, fields, missing, keys) ==
    [schema |-> schema, ok |-> FALSE, data |-> NoData,
     errors |-> [fields |-> fields, missing_fields |-> missing, keys |-> keys]]
NotLoaded ==
    [schema |-> "none", ok |-> FALSE, data |-> NoData,
     errors |-> [fields |-> NoFieldErrors, missing_fields |-> <<>>, keys |-> {}]]

\* class Meta: unknown = EXCLUDE, in both schemas
UserCreateSchema_unknown == "EXCLUDE"
UserUpdateSchema_unknown == "EXCLUDE"

\* Marshmallow's treatment of a key that no declared field reads: RAISE
\* reports it as an error under that key, INCLUDE copies the value into the
\* result, EXCLUDE drops it.
Unknown_error(unknown, raw) ==
    IF raw.t # "absent" /\ unknown = "RAISE" THEN UNKNOWN_FIELD ELSE NoReason
Unknown_value(unknown, raw) ==
    IF unknown = "INCLUDE" THEN raw ELSE Absent

\* the test of BaseUserSchema.validate_required_fields for one field
IsMissingField(data, f) ==
    data[f].t = "absent" \/ data[f].t = "none" \/ data[f] = Str(<<>>)
        \/ (data[f].t = "str" /\ strip(data[f].s) = <<>>)

\* a validate_required_fields that finds nothing missing
validate_required_fields_none(data) == <<>>

\* BaseUserSchema.validate_required_fields: the missing_fields it raises with
validate_required_fields(data) ==
    SelectSeq(RequiredFields, LAMBDA f : IsMissingField(data, f))

\* @validates_schema hooks keep the default skip_on_field_errors=True:
\* Marshmallow does not run them once a field has reported an error.
RunsSchemaValidators(field_errors) ==
    \A k \in PayloadKeys : field_errors[k] = NoReason

\* UserCreateSchema.make_user_data
make_user_data(data) ==
    [k \in PayloadKeys |-> IF k \in CreateFields THEN data[k] ELSE Absent]

\* validate_user_create_data that stops at the first field that fails
validate_user_create_data_failfast(data) ==
    LET clean == sanitize_user_data(data)
        des == [f \in CreateFields |-> Field_deserialize(f, TRUE, Absent, clean[f])]
        failing == SelectSeq(RequiredFields, LAMBDA f : des[f].error # NoReason)
        field_errors == [k \in PayloadKeys |->
                            IF failing # <<>> /\ k = Head(failing) THEN des[k].error
                            ELSE NoReason]
        output == [k \in PayloadKeys |->
                      IF k \in CreateFields THEN des[k].value ELSE Absent]
        missing == validate_required_fields(output)
    IN  IF ~RunsSchemaValidators(field_errors)
        THEN Raised("create", field_errors, <<>>,
                    {k \in PayloadKeys : field_errors[k] # NoReason})
        ELSE IF missing # <<>>
        THEN Raised("create", NoFieldErrors, missing, {"missing_fields", "message"})
        ELSE Loaded("create", make_user_data(output))

\* validate_user_create_data = user_create_schema.load(data)
validate_user_create_data(data) ==
    LET clean == sanitize_user_data(data)
        des == [f \in CreateFields |-> Field_deserialize(f, TRUE, Absent, clean[f])]
        field_errors == [k \in PayloadKeys |->
                            IF k \in CreateFields THEN des[k].error
                            ELSE Unknown_error(UserCreateSchema_unknown, clean[k])]
        output == [k \in PayloadKeys |->
                      IF k \in CreateFields THEN des[k].value
                      ELSE Unknown_value(UserCreateSchema_unknown, clean[k])]
        missing == validate_required_fields(output)
    IN  IF ~RunsSchemaValidators(field_errors)
        THEN Raised("create", field_errors, <<>>,
                    {k \in PayloadKeys : field_errors[k] # NoReason})
        ELSE IF missing # <<>>
        THEN Raised("create", NoFieldErrors, missing, {"missing_fields", "message"})
        ELSE Loaded("create", make_user_data(output))

\* UserUpdateSchema.validate_at_least_one_field: TRUE when it raises
validate_at_least_one_field(data) ==
    ~\E k \in PayloadKeys : data[k].t \notin {"absent", "none"}

\* UserUpdateSchema.make_update_data: None values removed
make_update_data(data) ==
    [k \in PayloadKeys |-> IF data[k].t # "none" THEN data[k] ELSE Absent]

\* validate_user_update_data = user_update_schema.load(data)
validate_user_update_data(data) ==
    LET clean == sanitize_user_data(data)
        des == [f \in UpdateFields |-> Field_deserialize(f, FALSE, None, clean[f])]
        field_errors == [k \in PayloadKeys |->
                            IF k \in UpdateFields THEN des[k].error
                            ELSE Unknown_error(UserUpdateSchema_unknown, clean[k])]
        output == [k \in PayloadKeys |->
                      IF k \in UpdateFields THEN des[k].value
                      ELSE Unknown_value(UserUpdateSchema_unknown, clean[k])]
    IN  IF ~RunsSchemaValidators(field_errors)
        THEN Raised("update", field_errors, <<>>,
                    {k \in PayloadKeys : field_errors[k] # NoReason})
        ELSE IF validate_at_least_one_field(output)
        THEN Raised("update", NoFieldErrors, <<>>, {"message"})
        ELSE Loaded("update", make_update_data(output))

----------------------------------------------------------------------------
(* lib/messages.py: ResponseTemplates.validation_error_response *)

NoResponse ==
    [error |-> "none", missing_fields |-> <<>>, required_fields |-> <<>>,
     details |-> {}]

validation_error_response(errors) ==
    IF "missing_fields" \in errors.keys
    THEN [error |-> MISSING_REQUIRED_FIELDS, missing_fields |-> errors.missing_fields,
          required_fields |-> <<"id", "name", "phone", "address">>, details |-> {}]
    ELSE [error |-> VALIDATION_FAILED, missing_fields |-> <<>>,
          required_fields |-> <<>>, details |-> errors.keys]

----------------------------------------------------------------------------
(* db/models.py: the two sources of time *)

\* Time is counted in ticks of datetime.now(); the database's now() is
\* CURRENT_TIMESTAMP, which SQLite gives in whole seconds.
TicksPerSecond == 2
func_now(t) == t - (t % TicksPerSecond)

\* an update_timestamp that reads the database's now()
datetime_now_seconds(t) == t - (t % TicksPerSecond)

\* BaseModel.update_timestamp: datetime.now(timezone.utc), at full resolution
datetime_now(t) == t

----------------------------------------------------------------------------
(* Initial values of the three groups of variables *)

NumProcs == 2
Procs == 1..NumProcs

ID_123456782 == <<"1", "2", "3", "4", "5", "6", "7", "8", "2">>
ID_123456789 == <<"1", "2", "3", "4", "5", "6", "7", "8", "9">>
ID_987654321 == <<"9", "8", "7", "6", "5", "4", "3", "2", "1">>
ID_000000018 == <<"0", "0", "0", "0", "0", "0", "0", "1", "8">>
RepoIds == {ID_123456782, ID_987654321, ID_000000018}

NoRet == [fn |-> "none", valid |-> FALSE, reason |-> NoReason]
NoRow == [id |-> <<>>, name |-> <<>>, phone |-> <<>>, address |-> <<>>,
          created_at |-> 0, updated_at |-> 0]
NoUserData == [id |-> <<>>, name |-> <<>>, phone |-> <<>>, address |-> <<>>,
               nulls |-> {}]
NoUpdate == [f \in UpdateFields |-> Absent]
\* an HTTP request: what its body is, the JSON object in it, the id in its path
HttpRequest(kind, body, path) == [kind |-> kind, body |-> body, path |-> path]
NoRequest == HttpRequest("none", NoData, <<>>)
NoCall == [op |-> "none", caller |-> "none", user_id |-> <<>>,
           user_data |-> NoUserData, existed |-> FALSE, request |-> NoRequest]
NoResult == [op |-> "none", outcome |-> "none", user |-> NoRow, user_id |-> <<>>,
             existed |-> FALSE, given |-> <<>>]
Result(op, outcome, user, user_id, existed) ==
    [op |-> op, outcome |-> outcome, user |-> user, user_id |-> user_id,
     existed |-> existed, given |-> <<>>]
\* an HTTP response: the status, the keys of the JSON body, its error kind
\* and validation parts (body), message, user_id and, for /health, the text
\* under "database"; beside it the request, the state of the storage when it
\* was served and how many repository calls the handler made
NoHttp == [endpoint |-> "none", request |-> NoRequest, served |-> "none", status |-> 0,
           keys |-> {}, body |-> NoResponse, message |-> "none", user_id |-> <<>>,
           database |-> <<>>, asked |-> 0]
NoScript == [i |-> 0, force |-> FALSE]
NoListing == [op |-> "none", ids |-> <<>>, users |-> <<>>, count |-> 0]

\* a MigrationManager call: target "" stands for target_version None
NoTarget == ""
NoRun == [cmd |-> "none", target |-> NoTarget, before |-> {}, todo |-> <<>>,
          pc |-> "idle", calls |-> <<>>, returned |-> "none"]

ValidatorIdle == arg = Absent /\ ret = NoRet
MigrationIdle == applied = {} /\ run = NoRun
SchemaIdle == payload = NoData /\ loaded = NotLoaded /\ response = NoResponse
RepoIdle ==
    /\ table = <<>>
    /\ txn = [p \in Procs |-> NoRow]
    /\ lock = 0
    /\ clock = TicksPerSecond
    /\ pc = [p \in Procs |-> "idle"]
    /\ call = [p \in Procs |-> NoCall]
    /\ result = NoResult
    /\ script = [p \in Procs |-> NoScript]
    /\ http = NoHttp
    /\ hist = [id \in RepoIds |-> [started |-> 0, created |-> 0, duplicate |-> 0,
                                   refused |-> 0, deleted |-> 0]]
    /\ nops = 0
    /\ db = "ready"
    /\ listing = NoListing

----------------------------------------------------------------------------
(* Validators applied to bounded inputs *)

\* the trailing FreeDigits characters of each base range over all digits
FreeDigits == 3
IdBases == {ID_123456782, ID_987654321, ID_000000018, Rep("9", ID_LENGTH)}
DigitTails == [1..FreeDigits -> Digits]
\* values that are no string of 9 digits
ID_12345678 == SubSeq(ID_123456789, 1, 8)
\* "123456782" written in Arabic-Indic digits
ID_123456782_ArabicIndic ==
    <<"U+0661", "U+0662", "U+0663", "U+0664", "U+0665", "U+0666", "U+0667",
      "U+0668", "U+0662">>
OtherIdInputs ==
    { None, NonString, Str(<<>>), Str(<<" ">>), Str(<<"a">>),
      Str(ID_12345678), Str(ID_12345678 \o <<"a">>), Str(ID_12345678 \o <<" ">>),
      Str(ID_12345678 \o <<"U+00B2">>), Str(ID_123456789 \o <<"0">>),
      Str(<<" ">> \o ID_123456782 \o <<" ">>), Str(ID_123456782_ArabicIndic),
      Str(SubSeq(ID_123456782_ArabicIndic, 1, 8) \o <<"9">>) }
IdInputs ==
    {Str(SubSeq(b, 1, ID_LENGTH - FreeDigits) \o t) : b \in IdBases, t \in DigitTails}
        \cup OtherIdInputs

\* values carry up to MaxPad blanks on each side
MaxPad == 1
Padded(s, n) == Rep(" ", n) \o s \o Rep(" ", n)

PHONE_VALID == <<"+", "9", "7", "2", "5", "0", "1", "2", "3">>
PHONE_NO_PLUS_SAMPLE == <<"9", "7", "2", "5", "0", "1", "2", "3", "4">>

\* phone values: "+", a run of the digit 1 and up to FreeDigits characters
\* of PhoneTailChars, from "+" alone to one character over the maximum
PhoneTailChars == {"0", "9", "a", " ", "U+0668"}
PhoneTails == UNION {[1..k -> PhoneTailChars] : k \in 0..FreeDigits}
OtherPhoneInputs ==
    { None, NonString, Str(<<>>), Str(<<" ">>), Str(<<"a">>),
      Str(PHONE_NO_PLUS_SAMPLE), Str(SubSeq(PHONE_VALID, 2, 9)),
      Str(<<"9", "+">>), Str(<<"+">> \o Rep("1", 7) \o <<"U+00B2">>) }
        \cup {Str(Padded(PHONE_VALID, n)) : n \in 0..MaxPad}
        \cup {Str(Padded(SubSeq(PHONE_VALID, 1, 8), n)) : n \in 0..MaxPad}
PhoneInputs ==
    {Str(<<"+">> \o Rep("1", n) \o t) :
        n \in 0..(PHONE_MAX_LEN - FreeDigits), t \in PhoneTails}
        \cup OtherPhoneInputs

\* names and addresses: blank, one character, and the lengths around the
\* limit, with up to MaxPad blanks on each side
TextInputs(max_len) ==
    {None, NonString}
        \cup {Str(Rep(" ", a) \o Rep("x", n) \o Rep(" ", b)) :
                a \in 0..MaxPad, b \in 0..MaxPad,
                n \in {0, 1, max_len - 1, max_len, max_len + 1}}
        \cup {Str(Rep("x", max_len - 1) \o <<" ", "x">>),
              Str(Rep("x", max_len - 1) \o <<" ", " ", "x">>)}
NameInputs == TextInputs(NAME_MAX_LEN)
AddressInputs == TextInputs(ADDRESS_MAX_LEN)

ValidatorInit ==
    /\ arg \in IdInputs \cup PhoneInputs \cup NameInputs \cup AddressInputs
    /\ ret = NoRet
    /\ SchemaIdle
    /\ RepoIdle
    /\ MigrationIdle
    /\ limit = 0

CallValidateIsraeliId ==
    /\ ret.fn = "none"
    /\ arg \in IdInputs
    /\ ret' = [fn |-> "validate_israeli_id",
               valid |-> validate_israeli_id(arg).valid,
               reason |-> validate_israeli_id(arg).reason]
    /\ UNCHANGED <<arg, schemaVars, repoVars, migVars>>

CallValidatePhoneNumber ==
    /\ ret.fn = "none"
    /\ arg \in PhoneInputs
    /\ ret' = [fn |-> "validate_phone_number",
               valid |-> validate_phone_number(arg).valid,
               reason |-> validate_phone_number(arg).reason]
    /\ UNCHANGED <<arg, schemaVars, repoVars, migVars>>

CallValidateName ==
    /\ ret.fn = "none"
    /\ arg \in NameInputs
    /\ ret' = [fn |-> "validate_name",
               valid |-> validate_name(arg).valid,
               reason |-> validate_name(arg).reason]
    /\ UNCHANGED <<arg, schemaVars, repoVars, migVars>>

CallValidateAddress ==
    /\ ret.fn = "none"
    /\ arg \in AddressInputs
    /\ ret' = [fn |-> "validate_address",
               valid |-> validate_address(arg).valid,
               reason |-> validate_address(arg).reason]
    /\ UNCHANGED <<arg, schemaVars, repoVars, migVars>>

ValidatorNext ==
    \/ CallValidateIsraeliId
    \/ CallValidatePhoneNumber
    \/ CallValidateName
    \/ CallValidateAddress

SpecValidator == ValidatorInit /\ [][ValidatorNext]_vars

----------------------------------------------------------------------------
(* The schemas applied to bounded payloads *)


BlankValues == {Str(Rep(" ", n)) : n \in 0..MaxPad}
CommonValues == {Absent, None, NonString} \cup BlankValues
IdValues ==
    CommonValues \cup {Str(Padded(ID_123456782, n)) : n \in 0..MaxPad}
        \cup {Str(ID_123456789)}
NameValues ==
    CommonValues \cup {Str(Padded(<<"J">>, n)) : n \in 0..MaxPad}
        \cup {Str(Rep("x", NAME_MAX_LEN + 1))}
PhoneValues ==
    CommonValues \cup {Str(Padded(PHONE_VALID, n)) : n \in 0..MaxPad}
        \cup {Str(PHONE_NO_PLUS_SAMPLE)}
AddressValues ==
    CommonValues \cup {Str(Padded(<<"A">>, n)) : n \in 0..MaxPad}
        \cup {Str(Rep("x", ADDRESS_MAX_LEN + 1))}
ExtraValues == {Absent, Str(<<"e">>)}

Payloads ==
    {[k \in PayloadKeys |->
        CASE k = "id" -> i [] k = "name" -> n [] k = "phone" -> ph
          [] k = "address" -> a [] k = "extra" -> x] :
        i \in IdValues, n \in NameValues, ph \in PhoneValues,
        a \in AddressValues, x \in ExtraValues}

SchemaInit ==
    /\ payload \in Payloads
    /\ loaded = NotLoaded
    /\ response = NoResponse
    /\ ValidatorIdle
    /\ RepoIdle
    /\ MigrationIdle
    /\ limit = 0

\* server.create_user, lines 155-158: load, and format the error if it raises
CreateLoad ==
    /\ loaded.schema = "none"
    /\ loaded' = validate_user_create_data(payload)
    /\ response' = IF loaded'.ok THEN NoResponse
                   ELSE validation_error_response(loaded'.errors)
    /\ UNCHANGED <<payload, valVars, repoVars, migVars>>

UpdateLoad ==
    /\ loaded.schema = "none"
    /\ loaded' = validate_user_update_data(payload)
    /\ UNCHANGED <<payload, response, valVars, repoVars, migVars>>

\* UserValidator.sanitize_user_data called on the raw mapping: it fills a
\* new dict and leaves its argument alone
Sanitize ==
    /\ loaded.schema = "none"
    /\ loaded' = Loaded("sanitize", sanitize_user_data(payload))
    /\ UNCHANGED <<payload, response, valVars, repoVars, migVars>>

\* sanitize_user_data called on the mapping it returned
SanitizeAgain ==
    /\ loaded.schema = "sanitize"
    /\ loaded' = Loaded("sanitize_again", sanitize_user_data(loaded.data))
    /\ UNCHANGED <<payload, response, valVars, repoVars, migVars>>

SchemaNext == CreateLoad \/ UpdateLoad \/ Sanitize \/ SanitizeAgain

SpecSchema == SchemaInit /\ [][SchemaNext]_vars

----------------------------------------------------------------------------
(* db/models.py and db/database.py: the users table and UserRepository *)

\* User.__init__: the four attributes; the timestamps are not set yet
User(user_data) ==
    [id |-> user_data.id, name |-> user_data.name, phone |-> user_data.phone,
     address |-> user_data.address, created_at |-> 0, updated_at |-> 0]

\* an updated_at that defaults to the clock of the process
InsertDefaults_process_clock(user, now) ==
    [user EXCEPT !.created_at = func_now(now), !.updated_at = datetime_now(now)]

\* BaseModel.created_at / updated_at: both default to now() at INSERT
InsertDefaults(user, now) ==
    [user EXCEPT !.created_at = func_now(now), !.updated_at = func_now(now)]

\* a users table that accepts any id
PrimaryKeyViolation_none(tbl, id) == FALSE

\* User.id is the primary key: an INSERT of an id the table holds is refused
PrimaryKeyViolation(tbl, id) ==
    \E i \in 1..Len(tbl) : tbl[i].id = id

\* create_user with the IntegrityError handler left out
create_user_raises_generic(exc) == "DatabaseError"

\* create_user's handlers: IntegrityError is raised again as IntegrityError,
\* any other exception as DatabaseError
create_user_raises(exc) ==
    IF exc = "IntegrityError" THEN "IntegrityError" ELSE "DatabaseError"

\* session.query(User).filter(User.id == user_id)
RowsWithId(tbl, user_id) == {i \in 1..Len(tbl) : tbl[i].id = user_id}
\* a user_exists that only asks whether the table has a row
user_exists_any(tbl, user_id) == tbl # <<>>
user_exists(tbl, user_id) == RowsWithId(tbl, user_id) # {}
query_first(tbl, user_id) ==
    IF RowsWithId(tbl, user_id) = {} THEN NoRow
    ELSE tbl[SetMin(RowsWithId(tbl, user_id))]

\* User.update_info followed by update_timestamp
update_info(user, name, phone, address, now) ==
    [user EXCEPT !.name = IF name.t \in {"absent", "none"} THEN @ ELSE name.s,
                 !.phone = IF phone.t \in {"absent", "none"} THEN @ ELSE phone.s,
                 !.address = IF address.t \in {"absent", "none"} THEN @ ELSE address.s,
                 !.updated_at = datetime_now(now)]

\* the table after update_user's flush: the row of user_id replaced
UpdatedTable(tbl, user_id, user_data, now) ==
    [i \in 1..Len(tbl) |->
        IF tbl[i].id = user_id
        THEN update_info(tbl[i], user_data["name"], user_data["phone"],
                         user_data["address"], now)
        ELSE tbl[i]]

\* a delete that is rolled back
DeletedTable_uncommitted(tbl, user_id) == tbl

\* the table after session.delete(user) is committed
DeletedTable(tbl, user_id) == SelectSeq(tbl, LAMBDA r : r.id # user_id)

\* db/database.py: what the storage can be: working, closed (or never
\* initialized), or failing with an error of the driver
DriverErrors == {"disk I/O error", "database is locked"}

\* NOT NULL on name, phone and address: an INSERT of a None value is refused
NotNullViolation(user_data) == user_data.nulls # {}

\* an ORDER BY updated_at DESC
ComesBefore_updated_at(tbl, i, j) ==
    \/ tbl[i].updated_at > tbl[j].updated_at
    \/ tbl[i].updated_at = tbl[j].updated_at /\ i > j

\* ORDER BY created_at DESC over the index on created_at: rows of one
\* created_at come out by rowid, descending
ComesBefore(tbl, i, j) ==
    \/ tbl[i].created_at > tbl[j].created_at
    \/ tbl[i].created_at = tbl[j].created_at /\ i > j
RankOf(tbl, i) == 1 + Cardinality({j \in 1..Len(tbl) : ComesBefore(tbl, j, i)})

\* session.query(User).order_by(User.created_at.desc()).all()
get_all_users(tbl) ==
    [k \in 1..Len(tbl) |-> tbl[CHOOSE i \in 1..Len(tbl) : RankOf(tbl, i) = k]]
\* session.query(User.id).order_by(User.created_at.desc()).all()
get_all_user_ids(tbl) ==
    [k \in 1..Len(tbl) |-> tbl[CHOOSE i \in 1..Len(tbl) : RankOf(tbl, i) = k].id]

----------------------------------------------------------------------------
(* lib/messages.py and app/server.py: the responses *)

USER_ALREADY_EXISTS == "User already exists"
USER_NOT_FOUND == "User not found"
USER_CREATED == "User created successfully"
INVALID_REQUEST == "Invalid Request"
ISRAELI_ID_INVALID_FORMAT == "Invalid Israeli ID format"
INTERNAL_SERVER_ERROR == "Internal Server Error"
HTTP_OK == 200
HTTP_CREATED == 201
HTTP_BAD_REQUEST == 400
HTTP_NOT_FOUND == 404
HTTP_CONFLICT == 409
HTTP_INTERNAL_SERVER_ERROR == 500

HttpBody(error) ==
    [error |-> error, missing_fields |-> <<>>, required_fields |-> <<>>, details |-> {}]

\* ResponseTemplates: each gives the body; the handler adds the status
error_response(error_type, message) ==
    [NoHttp EXCEPT !.keys = {"error", "message"}, !.body = HttpBody(error_type),
                   !.message = message]
success_response(message, data_keys) ==
    [NoHttp EXCEPT !.keys = {"message", "timestamp"} \cup data_keys,
                   !.message = message]
validation_error_body(errors) ==
    [NoHttp EXCEPT !.keys = IF "missing_fields" \in errors.keys
                            THEN {"error", "missing_fields", "required_fields"}
                            ELSE {"error", "details"},
                   !.body = validation_error_response(errors)]
user_not_found_response(user_id) ==
    [NoHttp EXCEPT !.keys = {"error", "user_id"}, !.body = HttpBody(USER_NOT_FOUND),
                   !.user_id = user_id]
user_already_exists_response(user_id) ==
    [NoHttp EXCEPT !.keys = {"error", "user_id"},
                   !.body = HttpBody(USER_ALREADY_EXISTS), !.user_id = user_id]
invalid_id_format_response(user_id, error_msg) ==
    [NoHttp EXCEPT !.keys = {"error", "message", "user_id"},
                   !.body = HttpBody(ISRAELI_ID_INVALID_FORMAT),
                   !.message = error_msg, !.user_id = user_id]

WithStatus(answer, status) == [answer EXCEPT !.status = status]
Sent(endpoint, request, dbs, answer) ==
    [answer EXCEPT !.endpoint = endpoint, !.request = request, !.served = dbs]

\* RequestValidator.validate_json_request: the content type, then the parse
validate_json_request(request) ==
    IF request.kind = "not_json"
    THEN [valid |-> FALSE, error_msg |-> "Content-Type must be application/json"]
    ELSE IF request.kind = "unparsable"
    THEN [valid |-> FALSE, error_msg |-> "JSON parsing error: {error}"]
    ELSE IF request.kind = "null"
    THEN [valid |-> FALSE, error_msg |-> "Invalid JSON data"]
    ELSE [valid |-> TRUE, error_msg |-> "None"]

\* what server.create_user answers once create_user has returned or raised
create_user_response(outcome, user_id) ==
    [asked |-> 1] @@
    IF outcome = "IntegrityError"
    THEN WithStatus(user_already_exists_response(user_id), HTTP_CONFLICT)
    ELSE IF outcome = "DatabaseError"
    THEN WithStatus(error_response(INTERNAL_SERVER_ERROR, "Failed to create user"),
                    HTTP_INTERNAL_SERVER_ERROR)
    ELSE WithStatus([success_response(USER_CREATED, {"user"}) EXCEPT !.user_id = user_id],
                    HTTP_CREATED)
CreateResponse(caller, request, outcome, user_id) ==
    IF caller # "http" THEN NoHttp
    ELSE Sent("POST /users", request, db, create_user_response(outcome, user_id))

\* server.get_user: the path id is validated, then the repository is asked
get_user_response(user_id, dbs, tbl) ==
    LET checked == validate_israeli_id(Str(user_id))
    IN  IF checked.reason = ValueError
        THEN WithStatus(error_response(INTERNAL_SERVER_ERROR,
                                       "An unexpected error occurred"),
                        HTTP_INTERNAL_SERVER_ERROR)
        ELSE IF ~checked.valid
        THEN WithStatus(invalid_id_format_response(user_id, checked.reason),
                        HTTP_BAD_REQUEST)
        ELSE IF dbs # "ready"
        THEN WithStatus(error_response(INTERNAL_SERVER_ERROR, "Failed to retrieve user"),
                        HTTP_INTERNAL_SERVER_ERROR)
        ELSE IF ~user_exists(tbl, user_id)
        THEN WithStatus(user_not_found_response(user_id), HTTP_NOT_FOUND)
        ELSE WithStatus([success_response("User retrieved successfully", {"user"})
                            EXCEPT !.user_id = user_id], HTTP_OK)

\* server.get_users
get_users_response(dbs, tbl) ==
    IF dbs # "ready"
    THEN WithStatus(error_response(INTERNAL_SERVER_ERROR, "Failed to retrieve users"),
                    HTTP_INTERNAL_SERVER_ERROR)
    ELSE WithStatus(success_response("Users listed successfully", {"users", "count"}),
                    HTTP_OK)

\* server.home: a DatabaseError of get_user_count is answered as 0 users
home_response(dbs, tbl) ==
    WithStatus(success_response("Welcome to User Management Flask Server",
                                {"total_users", "endpoints"}), HTTP_OK)

\* str(e) of the DatabaseError that get_user_count raises
get_user_count_error(dbs) ==
    <<"Failed to get user count: ",
      IF dbs = "closed" THEN "Database not initialized. Call initialize() first."
      ELSE dbs>>

\* server.health_check: "database" is the health dict of the DatabaseManager
\* or, when get_user_count raises, the text of its DatabaseError
health_check_response(dbs, tbl) ==
    [WithStatus(success_response("Service is healthy",
                    {"status", "users_count", "version", "server_type", "database"}),
                HTTP_OK)
        EXCEPT !.database = IF dbs = "ready" THEN <<"healthy">>
                            ELSE get_user_count_error(dbs)]

----------------------------------------------------------------------------
(* db/init_db.py: create_sample_data *)

PHONE_972501234567 ==
    <<"+", "9", "7", "2", "5", "0", "1", "2", "3", "4", "5", "6", "7">>
PHONE_972507654321 ==
    <<"+", "9", "7", "2", "5", "0", "7", "6", "5", "4", "3", "2", "1">>
JOHN_DOE == <<"J", "o", "h", "n", " ", "D", "o", "e">>
JANE_SMITH == <<"J", "a", "n", "e", " ", "S", "m", "i", "t", "h">>
MAIN_ST == <<"1", "2", "3", " ", "M", "a", "i", "n", " ", "S", "t">>
OAK_AVE == <<"4", "5", "6", " ", "O", "a", "k", " ", "A", "v", "e">>

sample_users ==
    << [id |-> ID_123456782, name |-> JOHN_DOE, phone |-> PHONE_972501234567,
        address |-> MAIN_ST, nulls |-> {}],
       [id |-> ID_987654321, name |-> JANE_SMITH, phone |-> PHONE_972507654321,
        address |-> OAK_AVE, nulls |-> {}] >>

\* the loop moves to the next sample user, or ends
NextSample(sc) ==
    IF sc.i >= Len(sample_users) THEN NoScript ELSE [sc EXCEPT !.i = sc.i + 1]

----------------------------------------------------------------------------
(* The repository under concurrent callers *)

\* the clock runs for MaxClock seconds; a run starts MaxOps operations
MaxClock == 3
MaxOps == 2
LastTick == TicksPerSecond * (MaxClock + 1) - 1
\* the instants at which the next timestamp can be read: the clock has moved
\* on, within the second or into the next one
Later(t) == {now \in {t + 1, func_now(t) + TicksPerSecond} : now <= LastTick}

\* the dict given to create_user; nulls names the keys whose value is None
UserData(id, name, phone, address) ==
    [id |-> id, name |-> name, phone |-> phone, address |-> address, nulls |-> {}]
UserDataWithNone(id, name, phone, address, nulls) ==
    [id |-> id, name |-> name, phone |-> phone, address |-> address, nulls |-> nulls]

\* what callers of the repository pass to create_user directly
DirectRecords ==
    { UserData(ID_123456782, <<"J">>, PHONE_VALID, <<"A">>),
      UserData(ID_123456782, <<"K">>, PHONE_VALID, <<"A">>),
      UserData(ID_000000018, <<>>, PHONE_VALID, <<"A">>),
      UserDataWithNone(ID_987654321, <<>>, PHONE_VALID, <<"A">>, {"name"}) }

\* what callers pass to update_user
UpdateData(name, phone, address) ==
    [f \in UpdateFields |->
        CASE f = "name" -> name [] f = "phone" -> phone [] f = "address" -> address]
UpdateDatas ==
    { UpdateData(Str(<<"L">>), Absent, Absent),
      UpdateData(Str(<<>>), Str(PHONE_972507654321), None) }

\* bodies of POST /users
Payload(id, name, phone, address, extra) ==
    [k \in PayloadKeys |->
        CASE k = "id" -> id [] k = "name" -> name [] k = "phone" -> phone
          [] k = "address" -> address [] k = "extra" -> extra]
HttpPayloads ==
    { Payload(Str(Padded(ID_123456782, 1)), Str(Padded(<<"J">>, 1)),
              Str(Padded(PHONE_VALID, 1)), Str(Padded(<<"A">>, 1)), Str(<<"e">>)),
      Payload(Str(ID_123456789), Str(<<"J">>), Str(PHONE_VALID), Str(<<"A">>), Absent),
      Payload(Absent, Str(<<"J">>), Str(PHONE_NO_PLUS_SAMPLE), Absent, Absent),
      Payload(Str(ID_123456782), Absent, Str(PHONE_VALID), Str(<<"A">>), Absent),
      Payload(Str(ID_000000018), None, Str(PHONE_VALID), Str(<<" ">>), Absent) }

Init ==
    /\ ValidatorIdle
    /\ SchemaIdle
    /\ RepoIdle
    /\ MigrationIdle
    /\ limit = MaxOps

\* create_user up to session.add(user): the session is open, nothing is written
CreateCall(caller, data) ==
    [op |-> "create_user", caller |-> caller, user_id |-> data.id,
     user_data |-> data, existed |-> user_exists(table, data.id),
     request |-> NoRequest]

\* a repository that treats a missing row as a failure
not_found_raises(op) == "DatabaseError"
\* what an operation returns when query.first() is None
not_found(op) == IF op = "delete_user" THEN "False" ELSE "None"

\* what a repository operation other than create_user raises on an exception
repo_raises(exc) == "DatabaseError"
\* the exception that the storage in state dbs raises to the repository:
\* get_session when it is closed, the driver otherwise
StorageException(dbs) == IF dbs = "closed" THEN "DatabaseError" ELSE "OperationalError"

\* a direct call of create_user; get_session raises when the database is closed
DirectCreate(p) ==
    /\ pc[p] = "idle" /\ script[p].i = 0 /\ nops < limit
    /\ \E data \in DirectRecords :
          IF db = "closed"
          THEN /\ result' = Result("create_user", create_user_raises(StorageException(db)),
                                   NoRow, data.id, user_exists(table, data.id))
               /\ UNCHANGED <<call, hist, pc>>
          ELSE /\ call' = [call EXCEPT ![p] = CreateCall("direct", data)]
               /\ hist' = [hist EXCEPT ![data.id].started = @ + 1]
               /\ pc' = [pc EXCEPT ![p] = "flush"]
               /\ result' = NoResult
    /\ http' = NoHttp
    /\ listing' = NoListing
    /\ nops' = nops + 1
    /\ UNCHANGED <<valVars, schemaVars, migVars, db, limit, table, txn, lock, clock, script>>

\* requests to POST /users: no JSON content type, a body that does not
\* parse, the JSON value null, or a JSON object
HttpRequests ==
    {HttpRequest(k, NoData, <<>>) : k \in {"not_json", "unparsable", "null"}}
        \cup {HttpRequest("object", b, <<>>) : b \in HttpPayloads}

\* POST /users: the JSON check, then the schema, create_user only when both
\* succeed
PostUsers(p) ==
    /\ pc[p] = "idle" /\ script[p].i = 0 /\ nops < limit
    /\ \E request \in HttpRequests :
          LET checked == validate_json_request(request)
              validated == validate_user_create_data(request.body)
              data == UserData(validated.data["id"].s, validated.data["name"].s,
                               validated.data["phone"].s, validated.data["address"].s)
          IN  IF ~checked.valid
              THEN /\ http' = Sent("POST /users", request, db,
                                   WithStatus(error_response(INVALID_REQUEST,
                                                             checked.error_msg),
                                              HTTP_BAD_REQUEST))
                   /\ UNCHANGED <<call, pc, hist>>
              ELSE IF ~validated.ok
              THEN /\ http' = Sent("POST /users", request, db,
                                   WithStatus(validation_error_body(validated.errors),
                                              HTTP_BAD_REQUEST))
                   /\ UNCHANGED <<call, pc, hist>>
              ELSE IF db = "closed"
              THEN /\ http' = Sent("POST /users", request, db,
                                   create_user_response(
                                       create_user_raises(StorageException(db)), data.id))
                   /\ UNCHANGED <<call, pc, hist>>
              ELSE /\ call' = [call EXCEPT ![p] =
                                   [CreateCall("http", data) EXCEPT !.request = request]]
                   /\ hist' = [hist EXCEPT ![data.id].started = @ + 1]
                   /\ pc' = [pc EXCEPT ![p] = "flush"]
                   /\ http' = NoHttp
    /\ result' = NoResult
    /\ listing' = NoListing
    /\ nops' = nops + 1
    /\ UNCHANGED <<valVars, schemaVars, migVars, db, limit, table, txn, lock, clock, script>>

\* create_user leaves with an exception: session_scope has rolled back and
\* closed, the handler or the script goes on
CreateRaises(p, exc) ==
    /\ result' = Result("create_user", create_user_raises(exc), NoRow,
                        call[p].user_id, call[p].existed)
    /\ http' = CreateResponse(call[p].caller, call[p].request,
                              create_user_raises(exc), call[p].user_id)
    /\ script' = [script EXCEPT ![p] =
          IF call[p].caller = "sample" THEN NextSample(@) ELSE @]
    /\ pc' = [pc EXCEPT ![p] = "idle"]
    /\ call' = [call EXCEPT ![p] = NoCall]

\* session.flush() in create_user: the INSERT.  SQLite lets one transaction
\* write at a time, so the INSERT waits while another session holds the lock.
\* A refused INSERT (primary key, NOT NULL) raises IntegrityError, a failing
\* storage an error of the driver; session_scope rolls back and closes.
Flush(p) ==
    /\ pc[p] = "flush"
    /\ IF db # "ready"
       THEN /\ CreateRaises(p, StorageException(db))
            /\ UNCHANGED <<txn, lock, clock, hist>>
       ELSE /\ lock = 0
            /\ IF PrimaryKeyViolation(table, call[p].user_id)
               THEN /\ CreateRaises(p, "IntegrityError")
                    /\ hist' = [hist EXCEPT ![call[p].user_id].duplicate = @ + 1]
                    /\ UNCHANGED <<txn, lock, clock>>
               ELSE IF NotNullViolation(call[p].user_data)
               THEN /\ CreateRaises(p, "IntegrityError")
                    /\ hist' = [hist EXCEPT ![call[p].user_id].refused = @ + 1]
                    /\ UNCHANGED <<txn, lock, clock>>
               ELSE /\ clock' \in Later(clock)
                    /\ txn' = [txn EXCEPT ![p] =
                                  InsertDefaults(User(call[p].user_data), clock')]
                    /\ lock' = p
                    /\ pc' = [pc EXCEPT ![p] = "commit"]
                    /\ UNCHANGED <<result, http, script, call, hist>>
    /\ UNCHANGED <<valVars, schemaVars, migVars, db, listing, limit, table, nops>>

\* a rollback that leaves the flushed row in the table
session_rollback_keeps(tbl, pending) == Append(tbl, pending)

\* session_scope's except branch: session.rollback() discards what the
\* session has flushed
session_rollback(tbl, pending) == tbl

\* refresh, expunge, return, and session_scope's commit: the row is stored;
\* a commit that fails is rolled back
Commit(p) ==
    /\ pc[p] = "commit"
    /\ IF db # "ready"
       THEN /\ CreateRaises(p, StorageException(db))
            /\ table' = session_rollback(table, txn[p])
            /\ UNCHANGED hist
       ELSE /\ table' = Append(table, txn[p])
            /\ result' = Result("create_user", "ok", txn[p], call[p].user_id,
                                call[p].existed)
            /\ http' = CreateResponse(call[p].caller, call[p].request, "ok",
                                      call[p].user_id)
            /\ script' = [script EXCEPT ![p] =
                  IF call[p].caller = "sample" THEN NextSample(@) ELSE @]
            /\ hist' = [hist EXCEPT ![call[p].user_id].created = @ + 1]
            /\ pc' = [pc EXCEPT ![p] = "idle"]
            /\ call' = [call EXCEPT ![p] = NoCall]
    /\ txn' = [txn EXCEPT ![p] = NoRow]
    /\ lock' = 0
    /\ UNCHANGED <<valVars, schemaVars, migVars, db, listing, limit, clock, nops>>

\* update_user: not found returns None; found applies update_info, flushes
\* the UPDATE under the write lock and commits; any exception is raised
\* again as DatabaseError
UpdateUser(p) ==
    /\ pc[p] = "idle" /\ script[p].i = 0 /\ nops < limit
    /\ \E user_id \in RepoIds, user_data \in UpdateDatas :
          IF db # "ready"
          THEN /\ result' = Result("update_user", repo_raises(StorageException(db)),
                                   NoRow, user_id, user_exists(table, user_id))
               /\ UNCHANGED <<table, clock>>
          ELSE IF user_exists(table, user_id)
          THEN /\ lock = 0
               /\ clock' \in Later(clock)
               /\ table' = UpdatedTable(table, user_id, user_data, clock')
               /\ result' = [Result("update_user", "ok", query_first(table', user_id),
                                     user_id, TRUE) EXCEPT !.given = user_data]
          ELSE /\ result' = Result("update_user", not_found("update_user"), NoRow,
                                   user_id, FALSE)
               /\ UNCHANGED <<table, clock>>
    /\ http' = NoHttp
    /\ listing' = NoListing
    /\ nops' = nops + 1
    /\ UNCHANGED <<valVars, schemaVars, migVars, db, limit, txn, lock, pc, call, script, hist>>

\* delete_user: False when not found; otherwise the DELETE is committed
DeleteUser(p) ==
    /\ pc[p] = "idle" /\ script[p].i = 0 /\ nops < limit
    /\ \E user_id \in RepoIds :
          IF db # "ready"
          THEN /\ result' = Result("delete_user", repo_raises(StorageException(db)),
                                   NoRow, user_id, user_exists(table, user_id))
               /\ UNCHANGED <<table, hist>>
          ELSE IF user_exists(table, user_id)
          THEN /\ lock = 0
               /\ table' = DeletedTable(table, user_id)
               /\ hist' = [hist EXCEPT ![user_id].deleted = @ + 1]
               /\ result' = Result("delete_user", "True", NoRow, user_id, TRUE)
          ELSE /\ result' = Result("delete_user", not_found("delete_user"), NoRow,
                                   user_id, FALSE)
               /\ UNCHANGED <<table, hist>>
    /\ http' = NoHttp
    /\ listing' = NoListing
    /\ nops' = nops + 1
    /\ UNCHANGED <<valVars, schemaVars, migVars, db, limit, txn, lock, clock, pc, call, script>>

\* create_sample_data starts (a command-line run on the same database, one
\* run at a time)
StartScript(p) ==
    /\ pc[p] = "idle" /\ nops < limit
    /\ \A q \in Procs : script[q].i = 0
    /\ \E force_recreate \in BOOLEAN :
          script' = [script EXCEPT ![p] = [i |-> 1, force |-> force_recreate]]
    /\ UNCHANGED <<valVars, schemaVars, migVars, db, listing, limit, table, txn, lock, clock, pc, call, result,
                   http, hist, nops>>

\* one turn of the loop up to create_user: user_exists, then skip the user,
\* go on to delete it, or go on to create it
ScriptCheck(p) ==
    /\ pc[p] = "idle" /\ script[p].i > 0
    /\ LET user_data == sample_users[script[p].i]
       IN  IF user_exists(table, user_data.id)
           THEN IF script[p].force
                THEN /\ nops < limit
                     /\ pc' = [pc EXCEPT ![p] = "script_delete"]
                     /\ nops' = nops + 1
                     /\ UNCHANGED <<script, call, hist>>
                ELSE /\ script' = [script EXCEPT ![p] = NextSample(@)]
                     /\ UNCHANGED <<pc, call, hist, nops>>
           ELSE /\ nops < limit
                /\ call' = [call EXCEPT ![p] = CreateCall("sample", user_data)]
                /\ hist' = [hist EXCEPT ![user_data.id].started = @ + 1]
                /\ pc' = [pc EXCEPT ![p] = "flush"]
                /\ nops' = nops + 1
                /\ UNCHANGED script
    /\ UNCHANGED <<valVars, schemaVars, migVars, db, listing, limit, table, txn, lock, clock, result, http>>

\* force_recreate: delete_user on the sample user, then on to create_user
ScriptDelete(p) ==
    /\ pc[p] = "script_delete"
    /\ LET user_data == sample_users[script[p].i]
       IN  /\ IF user_exists(table, user_data.id)
              THEN /\ lock = 0
                   /\ table' = DeletedTable(table, user_data.id)
                   /\ hist' = [hist EXCEPT ![user_data.id].deleted = @ + 1,
                                           ![user_data.id].started = @ + 1]
              ELSE /\ hist' = [hist EXCEPT ![user_data.id].started = @ + 1]
                   /\ UNCHANGED table
           /\ call' = [call EXCEPT ![p] = CreateCall("sample", user_data)]
    /\ pc' = [pc EXCEPT ![p] = "flush"]
    /\ UNCHANGED <<valVars, schemaVars, migVars, db, listing, limit, txn, lock, clock, result, script, http, nops>>

Next ==
    \/ \E p \in Procs : DirectCreate(p)
    \/ \E p \in Procs : PostUsers(p)
    \/ \E p \in Procs : Flush(p)
    \/ \E p \in Procs : Commit(p)
    \/ \E p \in Procs : UpdateUser(p)
    \/ \E p \in Procs : DeleteUser(p)
    \/ \E p \in Procs : StartScript(p)
    \/ \E p \in Procs : ScriptCheck(p)
    \/ \E p \in Procs : ScriptDelete(p)

Spec == Init /\ [][Next]_vars

----------------------------------------------------------------------------
(* One caller at a time: reads, HTTP GET handlers, storage failures *)

MaxCalls == 3

\* a read of the repository: the listing it returns, or DatabaseError
Read(op, user_id, outcome, users, ids, count) ==
    /\ \A p \in Procs : pc[p] = "idle" /\ script[p].i = 0
    /\ IF db # "ready"
       THEN /\ result' = Result(op, repo_raises(StorageException(db)), NoRow, user_id,
                                user_exists(table, user_id))
            /\ listing' = [NoListing EXCEPT !.op = op]
       ELSE /\ result' = Result(op, outcome, query_first(table, user_id), user_id,
                                user_exists(table, user_id))
            /\ listing' = [op |-> op, ids |-> ids, users |-> users, count |-> count]
    /\ http' = NoHttp
    /\ UNCHANGED <<valVars, schemaVars, migVars, db, limit, table, txn, lock, clock, pc, call, script,
                   hist, nops>>

\* get_user_by_id: the record, or None
GetUserById ==
    \E user_id \in RepoIds :
        Read("get_user_by_id", user_id,
             IF user_exists(table, user_id) THEN "ok" ELSE not_found("get_user_by_id"),
             <<>>, <<>>, 0)
\* user_exists
UserExists ==
    \E user_id \in RepoIds :
        Read("user_exists", user_id,
             IF user_exists(table, user_id) THEN "True" ELSE "False", <<>>, <<>>, 0)
GetAllUsers == Read("get_all_users", <<>>, "ok", get_all_users(table), <<>>, 0)
GetAllUserIds == Read("get_all_user_ids", <<>>, "ok", <<>>, get_all_user_ids(table), 0)
\* session.query(User).count()
GetUserCount == Read("get_user_count", <<>>, "ok", <<>>, <<>>, Len(table))

\* ids in the path of GET /users/<id>
PathIds ==
    { ID_123456782, ID_987654321, ID_123456789, ID_12345678,
      ID_12345678 \o <<"U+00B2">> }

\* a handler that looks the id up before it validates it
get_user_queries_unchecked(user_id) == 1

\* how many repository calls server.get_user makes: none for an id that
\* validate_israeli_id rejects
get_user_queries(user_id) ==
    IF validate_israeli_id(Str(user_id)).valid THEN 1 ELSE 0

\* a GET request: the handler's answer is sent
Get(endpoint, user_id, answer, asked) ==
    /\ \A p \in Procs : pc[p] = "idle" /\ script[p].i = 0
    /\ http' = [Sent(endpoint, HttpRequest("get", NoData, user_id), db, answer)
                   EXCEPT !.asked = asked]
    /\ result' = NoResult
    /\ listing' = NoListing
    /\ UNCHANGED <<valVars, schemaVars, migVars, db, limit, table, txn, lock, clock, pc, call, script,
                   hist, nops>>

GetUserHttp ==
    \E user_id \in PathIds :
        Get("GET /users/<id>", user_id, get_user_response(user_id, db, table),
            get_user_queries(user_id))
GetUsersHttp == Get("GET /users", <<>>, get_users_response(db, table), 1)
Home == Get("GET /", <<>>, home_response(db, table), 1)
HealthCheck == Get("GET /health", <<>>, health_check_response(db, table), 1)

\* the storage starts to fail, recovers, is closed, is initialized again
StorageFails ==
    /\ db = "ready"
    /\ db' \in DriverErrors
    /\ UNCHANGED <<valVars, schemaVars, migVars, listing, limit, table, txn, lock, clock, pc,
                   call, result, script, http, hist, nops>>
StorageRecovers ==
    /\ db \in DriverErrors
    /\ db' = "ready"
    /\ UNCHANGED <<valVars, schemaVars, migVars, listing, limit, table, txn, lock, clock, pc,
                   call, result, script, http, hist, nops>>
\* DatabaseManager.close, between operations
CloseDatabase ==
    /\ db = "ready"
    /\ \A p \in Procs : pc[p] = "idle"
    /\ db' = "closed"
    /\ UNCHANGED <<valVars, schemaVars, migVars, listing, limit, table, txn, lock, clock, pc,
                   call, result, script, http, hist, nops>>
\* DatabaseManager.initialize on the same file
Initialize ==
    /\ db = "closed"
    /\ db' = "ready"
    /\ UNCHANGED <<valVars, schemaVars, migVars, listing, limit, table, txn, lock, clock, pc,
                   call, result, script, http, hist, nops>>

ServiceInit ==
    /\ ValidatorIdle
    /\ SchemaIdle
    /\ RepoIdle
    /\ MigrationIdle
    /\ limit = MaxCalls

\* one caller of the UserRepository
RepositoryNext ==
    \/ DirectCreate(1)
    \/ Flush(1)
    \/ Commit(1)
    \/ UpdateUser(1)
    \/ DeleteUser(1)
    \/ GetUserById
    \/ UserExists
    \/ GetAllUsers
    \/ GetAllUserIds
    \/ GetUserCount
    \/ StorageFails
    \/ StorageRecovers
    \/ CloseDatabase
    \/ Initialize

SpecRepository == ServiceInit /\ [][RepositoryNext]_vars

\* one client of the HTTP server
ServerNext ==
    \/ PostUsers(1)
    \/ Flush(1)
    \/ Commit(1)
    \/ GetUserHttp
    \/ GetUsersHttp
    \/ Home
    \/ HealthCheck
    \/ StorageFails
    \/ StorageRecovers
    \/ CloseDatabase
    \/ Initialize

SpecServer == ServiceInit /\ [][ServerNext]_vars

----------------------------------------------------------------------------
(* db/migrations.py: MigrationManager.migrate and rollback *)

\* a run makes up to MaxRuns calls of migrate and rollback
MaxRuns == 3

\* MigrationManager.migrations, by version, in list order
migrations == <<"001", "002">>
\* the order of the version strings; "003" is a version no migration has
VersionOrder == <<"001", "002", "003">>
TargetVersions == {"001", "002", "003"}
Position(seq, v) == CHOOSE i \in 1..Len(seq) : seq[i] = v
\* a <= b on version strings
VersionLE(a, b) == Position(VersionOrder, a) <= Position(VersionOrder, b)

\* migrate's pending list: migrations not applied, up to the target if any
pending(versions, target_version) ==
    SelectSeq(migrations,
              LAMBDA m : m \notin versions
                           /\ (target_version = NoTarget \/ VersionLE(m, target_version)))

RECURSIVE to_rollback_from(_, _, _)
\* rollback's loop over reversed(self.migrations), from index i down: an
\* applied migration is appended, and the loop breaks after appending the
\* one whose version is the target
to_rollback_from(i, versions, target_version) ==
    IF i = 0 THEN <<>>
    ELSE IF migrations[i] \in versions
    THEN IF target_version # NoTarget /\ migrations[i] = target_version
         THEN <<migrations[i]>>
         ELSE <<migrations[i]>> \o to_rollback_from(i - 1, versions, target_version)
    ELSE to_rollback_from(i - 1, versions, target_version)

to_rollback(versions, target_version) ==
    to_rollback_from(Len(migrations), versions, target_version)

\* a call starts: what it found applied and what it will do
StartedRun(cmd, target_version, todo) ==
    [cmd |-> cmd, target |-> target_version, before |-> applied, todo |-> todo,
     pc |-> IF todo = <<>> THEN "idle" ELSE "call",
     calls |-> <<>>,
     returned |-> IF todo = <<>> THEN "True" ELSE "none"]

\* the except branch: the call returns False
Failed(r, version) ==
    [r EXCEPT !.calls = Append(@, version), !.pc = "idle", !.returned = "False"]

\* migrate(target_version) up to the loop; nothing pending returns True
MigrateStart ==
    /\ run.pc = "idle" /\ nops < limit
    /\ \E target_version \in TargetVersions \cup {NoTarget} :
          run' = StartedRun("migrate", target_version, pending(applied, target_version))
    /\ nops' = nops + 1
    /\ UNCHANGED <<valVars, schemaVars, applied, table, txn, lock, clock, pc, call,
                   result, script, http, hist, db, listing, limit>>

\* rollback(target_version) up to the loop; nothing applied returns True
RollbackStart ==
    /\ run.pc = "idle" /\ nops < limit
    /\ \E target_version \in TargetVersions \cup {NoTarget} :
          run' = StartedRun("rollback", target_version,
                            IF applied = {} THEN <<>>
                            ELSE to_rollback(applied, target_version))
    /\ nops' = nops + 1
    /\ UNCHANGED <<valVars, schemaVars, applied, table, txn, lock, clock, pc, call,
                   result, script, http, hist, db, listing, limit>>

\* migration.up() or migration.down() of the next migration: it returns, or
\* it raises and the call returns False
UpOrDown ==
    /\ run.pc = "call"
    /\ \E raises \in BOOLEAN :
          run' = IF raises THEN Failed(run, Head(run.todo))
                 ELSE [run EXCEPT !.calls = Append(@, Head(run.todo)), !.pc = "mark"]
    /\ UNCHANGED <<valVars, schemaVars, repoVars, applied>>

\* _mark_migration_applied or _mark_migration_reverted: the row of the
\* version is inserted or deleted, and the loop goes on or the call returns
\* True
Mark ==
    /\ run.pc = "mark"
    /\ applied' = IF run.cmd = "migrate" THEN applied \cup {Head(run.todo)}
                  ELSE applied \ {Head(run.todo)}
    /\ run' = [run EXCEPT !.todo = Tail(@),
                          !.pc = IF Tail(run.todo) = <<>> THEN "idle" ELSE "call",
                          !.returned = IF Tail(run.todo) = <<>> THEN "True" ELSE "none"]
    /\ UNCHANGED <<valVars, schemaVars, repoVars>>

MigrationInit ==
    /\ ValidatorIdle
    /\ SchemaIdle
    /\ RepoIdle
    /\ MigrationIdle
    /\ limit = MaxRuns

MigrationNext == MigrateStart \/ RollbackStart \/ UpOrDown \/ Mark

SpecMigration == MigrationInit /\ [][MigrationNext]_vars

----------------------------------------------------------------------------
(* Properties of the checksum validator *)

IsNineDigits(v) ==
    v.t = "str" /\ Len(v.s) = 9 /\ \A i \in 1..9 : v.s[i] \in Digits

\* the transformed value of the digit at 0-based index i, as the algorithm
\* of the specification states it
StatedTerm(s, i) ==
    LET product == DigitVal(s[i + 1]) * (IF i % 2 = 0 THEN 1 ELSE 2)
    IN  IF product > 9 THEN (product \div 10) + (product % 10) ELSE product
StatedSum(s) ==
    StatedTerm(s, 0) + StatedTerm(s, 1) + StatedTerm(s, 2) + StatedTerm(s, 3)
        + StatedTerm(s, 4) + StatedTerm(s, 5) + StatedTerm(s, 6) + StatedTerm(s, 7)
StatedCheckDigit(s) == (10 - (StatedSum(s) % 10)) % 10

\* C1: on a string of exactly 9 digits validate_israeli_id returns valid
\* exactly when the 9th digit equals (10 - (S mod 10)) mod 10, S being the
\* sum of the transformed first 8 digits; "123456782" is valid and
\* "123456789" is not.
C1_ChecksumMatchesAlgorithm ==
    (ret.fn = "validate_israeli_id" /\ IsNineDigits(arg)) =>
        /\ ret.valid <=> (DigitVal(arg.s[9]) = StatedCheckDigit(arg.s))
        /\ arg.s = ID_123456782 => ret.valid
        /\ arg.s = ID_123456789 => ~ret.valid

C1_Witness ==
    /\ ret.fn = "validate_israeli_id"
    /\ arg = Str(ID_123456782)
    /\ ret.valid

----------------------------------------------------------------------------
(* Properties of the create and update schemas *)

\* a raw payload value that counts as missing: absent, None, or a string
\* that is empty once trimmed
RawMissing(v) ==
    v.t \in {"absent", "none"} \/ (v.t = "str" /\ strip(v.s) = <<>>)
MissingOf(p) == SelectSeq(RequiredFields, LAMBDA f : RawMissing(p[f]))

\* the verdict of the field's own validator on a value
Validator(f, v) ==
    CASE f = "id" -> validate_israeli_id(v)
      [] f = "name" -> validate_name(v)
      [] f = "phone" -> validate_phone_number(v)
      [] f = "address" -> validate_address(v)
InvalidFields(p) == {f \in CreateFields : ~Validator(f, p[f]).valid}
FieldEntries(l) == l.errors.keys \cap PayloadKeys

\* C5: a create payload with a missing required field fails with one
\* aggregated error whose missing_fields is exactly the missing fields in
\* the order id, name, phone, address, and the formatted response carries
\* required_fields, whatever the values of the fields that are present.
C5_MissingFieldsAlwaysAggregated ==
    (loaded.schema = "create" /\ MissingOf(payload) # <<>>) =>
        /\ ~loaded.ok
        /\ "missing_fields" \in loaded.errors.keys
        /\ loaded.errors.missing_fields = MissingOf(payload)
        /\ response.missing_fields = MissingOf(payload)
        /\ response.required_fields = RequiredFields

\* C6: when a required field is missing from a create payload the error has
\* no per-field entry for any field; per-field entries appear only for
\* payloads in which no required field is missing.
C6_NoFieldEntryWhenMissing ==
    (loaded.schema = "create" /\ FieldEntries(loaded) # {}) =>
        MissingOf(payload) = <<>>

C8_CreateResultSanitized ==
    loaded.schema = "create" =>
        /\ loaded.ok =>
              /\ \A f \in CreateFields :
                    /\ payload[f].t = "str"
                    /\ loaded.data[f] = Str(strip(payload[f].s))
              /\ \A k \in PayloadKeys \ CreateFields : loaded.data[k] = Absent
        /\ validate_user_create_data([payload EXCEPT !["extra"] = Absent]).ok
              => loaded.ok

C8_Witness ==
    /\ loaded.schema = "create"
    /\ loaded.ok
    /\ payload["extra"] # Absent
    /\ payload["name"] = Str(Padded(<<"J">>, 1))
    /\ loaded.data["name"] = Str(<<"J">>)

Supplied(p) == {f \in UpdateFields : p[f].t # "absent"}
SuppliedNonNull(p) == {f \in UpdateFields : p[f].t \notin {"absent", "none"}}

\* C9: the update schema accepts a payload exactly when at least one of
\* name, phone, address is supplied non-null and every supplied field is
\* valid; on success the result holds exactly the supplied fields, never id.
C9_UpdateAcceptsIffSuppliedAndValid ==
    loaded.schema = "update" =>
        /\ loaded.ok <=>
              /\ SuppliedNonNull(payload) # {}
              /\ \A f \in Supplied(payload) : Validator(f, payload[f]).valid
        /\ loaded.ok =>
              {k \in PayloadKeys : loaded.data[k] # Absent} = Supplied(payload)

\* C10: every value the update schema returns passes the validator of its
\* field, so an empty or whitespace-only name, phone or address is rejected.
C10_UpdateValuesPassValidators ==
    (loaded.schema = "update" /\ loaded.ok) =>
        \A f \in UpdateFields :
            loaded.data[f] # Absent => Validator(f, loaded.data[f]).valid

----------------------------------------------------------------------------
(* Properties of the repository *)

\* the step in which process p's INSERT is decided
InsertDecided(p) == pc[p] = "flush" /\ pc'[p] # "flush"
\* the step in which process p's create_user returns its record
CreateReturns(p) == pc[p] = "commit" /\ pc'[p] = "idle"

UniqueIds ==
    \A i, j \in 1..Len(table) : table[i].id = table[j].id => i = j
InFlight(id) ==
    \E p \in Procs : pc[p] \in {"flush", "commit"} /\ call[p].user_id = id

\* C3: no state of the table holds two rows with the same id, and of the
\* create_user calls that carry one id (not stored before, never deleted,
\* each with a name, phone and address) exactly one returns a record and
\* every other raises IntegrityError, however the calls interleave.
C3_ConcurrentCreatesOneWinner ==
    /\ UniqueIds
    /\ \A id \in RepoIds :
          (hist[id].deleted = 0 /\ hist[id].refused = 0) =>
              /\ hist[id].created <= 1
              /\ (hist[id].started > 0 /\ ~InFlight(id)) =>
                    /\ hist[id].created = 1
                    /\ hist[id].duplicate = hist[id].started - 1

\* two calls overlapped: the one that lost began while the id was not stored
C3_Witness ==
    /\ result.op = "create_user"
    /\ result.outcome = "IntegrityError"
    /\ ~result.existed
    /\ hist[result.user_id].deleted = 0
    /\ hist[result.user_id].created = 1
    /\ hist[result.user_id].started >= 2
    /\ ~InFlight(result.user_id)

RowPassesValidators(row) ==
    /\ validate_israeli_id(Str(row.id)).valid
    /\ validate_name(Str(row.name)).valid
    /\ validate_phone_number(Str(row.phone)).valid
    /\ validate_address(Str(row.address)).valid

\* C4: every stored row has an id, name, phone and address that pass their
\* validators, whoever called the repository.
C4_StoredRecordsPassValidators ==
    \A i \in 1..Len(table) : RowPassesValidators(table[i])

----------------------------------------------------------------------------
(* Properties of the reasons validate_israeli_id gives *)

IdReasons ==
    <<ISRAELI_ID_EMPTY, ISRAELI_ID_NOT_DIGITS, ISRAELI_ID_WRONG_LENGTH,
      ISRAELI_ID_INVALID_CHECKSUM>>
HasNonDigit(v) == \E i \in 1..Len(v.s) : v.s[i] \notin Digits

\* the reason the stated order of checks gives to a rejected value
StatedIdReason(v) ==
    IF v.t # "str" \/ v.s = <<>> THEN ISRAELI_ID_EMPTY
    ELSE IF HasNonDigit(v) THEN ISRAELI_ID_NOT_DIGITS
    ELSE IF Len(v.s) # 9 THEN ISRAELI_ID_WRONG_LENGTH
    ELSE ISRAELI_ID_INVALID_CHECKSUM

\* C20: validate_israeli_id never raises, and a value it rejects gets exactly
\* one of four pairwise distinct reasons, decided in the order empty or
\* non-string, non-digit character, wrong length, wrong check digit.
C20_IdRejectionReasons ==
    /\ \A i, j \in 1..4 : IdReasons[i] = IdReasons[j] => i = j
    /\ ret.fn = "validate_israeli_id" =>
          /\ ret.reason # ValueError
          /\ ~ret.valid => ret.reason = StatedIdReason(arg)

----------------------------------------------------------------------------
(* Properties of update, read and delete *)

\* the step in which a repository call starts and returns at once
Returns(op) ==
    /\ result'.op = op
    /\ nops' = nops + 1 \/ <<result, listing, http>>' # <<result, listing, http>>
RowOf(tbl, user_id) == SetMin(RowsWithId(tbl, user_id))

\* C11: update_user on a stored id sets exactly the fields among name, phone
\* and address that the partial record supplies with a non-None value, keeps
\* the other fields, the id and created_at, keeps every other row, and sets
\* updated_at to a strictly greater value.
C11_UpdateChangesSuppliedFieldsOnly ==
    [][(Returns("update_user") /\ db = "ready" /\ user_exists(table, result'.user_id)) =>
          LET i == RowOf(table, result'.user_id)
              partial == result'.given
          IN  /\ result'.outcome = "ok"
              /\ Len(table') = Len(table)
              /\ \A j \in 1..Len(table) : j # i => table'[j] = table[j]
              /\ \A f \in UpdateFields :
                    table'[i][f] = IF partial[f].t \in {"absent", "none"}
                                   THEN table[i][f] ELSE partial[f].s
              /\ table'[i].id = table[i].id
              /\ table'[i].created_at = table[i].created_at
              /\ table'[i].updated_at > table[i].updated_at
              /\ result'.user = table'[i]
      ]_vars

\* a second record is stored; the update gave a name and no phone
C11_Witness ==
    /\ result.op = "update_user"
    /\ result.outcome = "ok"
    /\ Len(table) = 2
    /\ result.given["name"].t = "str"
    /\ result.given["phone"].t = "absent"
    /\ result.user.name = result.given["name"].s
    /\ result.user.updated_at > result.user.created_at

\* C12: on an id that is not stored, and with the storage working,
\* get_user_by_id and update_user return None and delete_user returns False;
\* none of them raises, and the table is left as it was.
C12_NotFoundIsAValue ==
    [][\A op \in {"get_user_by_id", "update_user", "delete_user"} :
          (Returns(op) /\ db = "ready" /\ ~user_exists(table, result'.user_id)) =>
              /\ result'.outcome = IF op = "delete_user" THEN "False" ELSE "None"
              /\ result'.user = NoRow
              /\ table' = table
      ]_vars

\* delete_user on an id that is not stored, while another record is
C12_Witness ==
    /\ result.op = "delete_user"
    /\ result.outcome = "False"
    /\ ~result.existed
    /\ Len(table) = 1
    /\ ~user_exists(table, result.user_id)

\* every record created under the id was deleted again
WasDeleted(id) == hist[id].deleted > 0 /\ hist[id].deleted = hist[id].created

\* C13: with the storage working, delete_user returns True exactly when a
\* row with the id was stored; the row is then gone and every other row is
\* unchanged; afterwards get_user_by_id returns None and user_exists False
\* for the id, and a later create_user with the id inserts and returns it.
C13_DeleteRemovesExactlyTheRecord ==
    [][/\ (Returns("delete_user") /\ db = "ready") =>
             /\ result'.outcome \in {"True", "False"}
             /\ result'.outcome = "True" <=> user_exists(table, result'.user_id)
             /\ ~user_exists(table', result'.user_id)
             /\ Len(table') = Len(table) - Cardinality(RowsWithId(table, result'.user_id))
             /\ \A j \in 1..Len(table) :
                   table[j].id # result'.user_id =>
                       \E k \in 1..Len(table') : table'[k] = table[j]
       /\ (Returns("get_user_by_id") /\ db = "ready" /\ WasDeleted(result'.user_id)) =>
             result'.outcome = "None" /\ result'.user = NoRow
       /\ (Returns("user_exists") /\ db = "ready" /\ WasDeleted(result'.user_id)) =>
             result'.outcome = "False"
       /\ \A p \in Procs :
             /\ (InsertDecided(p) /\ db = "ready" /\ WasDeleted(call[p].user_id)
                     /\ ~NotNullViolation(call[p].user_data)) => pc'[p] = "commit"
             /\ (CreateReturns(p) /\ db = "ready" /\ WasDeleted(call[p].user_id)) =>
                   /\ result'.outcome = "ok"
                   /\ result'.user.id = call[p].user_id
                   /\ user_exists(table', call[p].user_id)
      ]_vars

\* a record was created, deleted and created again under one id
C13_Witness ==
    /\ result.op = "create_user"
    /\ result.outcome = "ok"
    /\ hist[result.user_id].deleted = 1
    /\ hist[result.user_id].created = 2
    /\ user_exists(table, result.user_id)

----------------------------------------------------------------------------
(* Properties of the listings *)

\* the ids of the table, the record created last first
NewestFirst(tbl) == [k \in 1..Len(tbl) |-> tbl[Len(tbl) + 1 - k].id]

----------------------------------------------------------------------------
(* Properties of the timestamps *)

\* C15: every stored record has created_at set, and no step changes the
\* created_at of a record that stays stored; a record that create_user
\* returns has updated_at = created_at; updated_at >= created_at in every
\* state.
C15_TimestampsOfStoredRecords ==
    [][/\ \A k \in 1..Len(table') :
             /\ table'[k].created_at > 0
             /\ table'[k].updated_at >= table'[k].created_at
       /\ \A i \in 1..Len(table), k \in 1..Len(table') :
             table[i].id = table'[k].id => table'[k].created_at = table[i].created_at
       /\ \A p \in Procs :
             (CreateReturns(p) /\ result'.outcome = "ok") =>
                 /\ result'.user.updated_at = result'.user.created_at
                 /\ query_first(table', call[p].user_id) = result'.user
      ]_vars

\* one record has been updated since it was created, another has not
C15_Witness ==
    /\ Len(table) = 2
    /\ table[1].updated_at > table[1].created_at
    /\ table[2].updated_at = table[2].created_at

----------------------------------------------------------------------------
(* Properties of the HTTP handlers *)

\* the step in which a response is sent
Responds == http' # http /\ http'.status # 0
\* the step in which the POST /users handler calls create_user
PostReachesRepository(p) ==
    pc[p] = "idle" /\ pc'[p] = "flush" /\ call'[p].caller = "http"

\* C16: POST /users calls the repository only for a request that passed the
\* JSON check and the schema, GET /users/<id> only for a path id that passed
\* validate_israeli_id; a request answered 400 made no repository call and
\* left the table, the open transactions and the calls in progress as they were.
C16_RejectedRequestsDoNotReachStorage ==
    [][/\ \A p \in Procs :
             PostReachesRepository(p) =>
                 /\ validate_json_request(call'[p].request).valid
                 /\ validate_user_create_data(call'[p].request.body).ok
       /\ (Responds /\ http'.endpoint = "POST /users" /\ http'.asked > 0) =>
             /\ validate_json_request(http'.request).valid
             /\ validate_user_create_data(http'.request.body).ok
       /\ (Responds /\ http'.endpoint = "GET /users/<id>" /\ http'.asked > 0) =>
             validate_israeli_id(Str(http'.request.path)).valid
       /\ (Responds /\ http'.status = HTTP_BAD_REQUEST) =>
             /\ http'.asked = 0
             /\ UNCHANGED <<table, txn, lock, pc, call, hist>>
      ]_vars

\* a GET with a path id of wrong length was answered 400 while a record is
\* stored
C16_Witness ==
    /\ http.endpoint = "GET /users/<id>"
    /\ http.status = HTTP_BAD_REQUEST
    /\ http.request.path = ID_12345678
    /\ http.asked = 0
    /\ Len(table) = 1

----------------------------------------------------------------------------
(* Properties of the repository's exceptions *)

\* the step in which a repository call ends
Ended ==
    /\ result'.op # "none"
    /\ result' # result \/ listing' # listing \/ nops' = nops + 1

\* C17: a repository operation that runs while the storage is closed or
\* failing raises DatabaseError; the only other exception that leaves an
\* operation is the IntegrityError of create_user on an id that is stored;
\* an id that is not stored gives None or False, never an exception.
C17_FailuresRaiseDatabaseError ==
    [][Ended =>
          /\ result'.outcome \in {"ok", "None", "True", "False", "DatabaseError",
                                  "IntegrityError"}
          /\ db # "ready" => result'.outcome = "DatabaseError"
          /\ result'.outcome = "IntegrityError" =>
                /\ result'.op = "create_user"
                /\ user_exists(table, result'.user_id)
          /\ (db = "ready" /\ ~user_exists(table, result'.user_id)
                /\ result'.op \in {"get_user_by_id", "update_user", "delete_user",
                                   "user_exists"}) =>
                result'.outcome \in {"None", "False"}
      ]_vars

----------------------------------------------------------------------------
(* Properties of the responses *)

\* what the client receives
Body(h) ==
    [status |-> h.status, keys |-> h.keys, body |-> h.body, message |-> h.message,
     user_id |-> h.user_id, database |-> h.database]
\* the answer of a GET endpoint to a request when the storage is in state dbs
AnswerTo(endpoint, request, dbs, tbl) ==
    CASE endpoint = "GET /users/<id>" -> get_user_response(request.path, dbs, tbl)
      [] endpoint = "GET /users" -> get_users_response(dbs, tbl)
      [] endpoint = "GET /health" -> health_check_response(dbs, tbl)
      [] OTHER -> home_response(dbs, tbl)

\* C18: a response served while the storage fails holds no text of the
\* driver's error, and every GET endpoint answers the same body whichever
\* error the driver gives.
C18_ResponsesIndependentOfDriverText ==
    (http.status # 0 /\ http.served \in DriverErrors) =>
        /\ http.message \notin DriverErrors
        /\ \A i \in 1..Len(http.database) : http.database[i] \notin DriverErrors
        /\ http.endpoint # "POST /users" =>
              \A e \in DriverErrors :
                  Body(AnswerTo(http.endpoint, http.request, e, table)) = Body(http)

\* the error values of the categories
ErrorValues ==
    <<INVALID_REQUEST, MISSING_REQUIRED_FIELDS, VALIDATION_FAILED, USER_ALREADY_EXISTS,
      INTERNAL_SERVER_ERROR, ISRAELI_ID_INVALID_FORMAT, USER_NOT_FOUND>>

\* an id as the specification defines a valid one: 9 digits, the last the
\* check digit of the first 8
StatedValidId(id) ==
    IsNineDigits(Str(id)) /\ DigitVal(id[9]) = StatedCheckDigit(id)

\* the outcome of a POST /users request, decided in the order the
\* specification gives
PostOutcome(request, dbs, tbl) ==
    IF request.kind # "object" THEN "malformed"
    ELSE IF \E f \in CreateFields : request.body[f].t = "absent" THEN "missing"
    ELSE IF ~validate_user_create_data(request.body).ok THEN "invalid"
    ELSE IF dbs # "ready" THEN "storage"
    ELSE IF user_exists(tbl, validate_user_create_data(request.body).data["id"].s)
    THEN "duplicate"
    ELSE "created"
\* the outcome of a GET /users/<id> request
GetOutcome(request, dbs, tbl) ==
    IF ~StatedValidId(request.path) THEN "invalid"
    ELSE IF dbs # "ready" THEN "storage"
    ELSE IF ~user_exists(tbl, request.path) THEN "absent"
    ELSE "found"

\* status, keys and error value that the specification gives to an outcome
StatedShape(endpoint, outcome) ==
    CASE outcome = "malformed" ->
            [status |-> HTTP_BAD_REQUEST, keys |-> {"error", "message"},
             error |-> INVALID_REQUEST]
      [] outcome = "missing" ->
            [status |-> HTTP_BAD_REQUEST,
             keys |-> {"error", "missing_fields", "required_fields"},
             error |-> MISSING_REQUIRED_FIELDS]
      [] outcome = "invalid" /\ endpoint = "POST /users" ->
            [status |-> HTTP_BAD_REQUEST, keys |-> {"error", "details"},
             error |-> VALIDATION_FAILED]
      [] outcome = "invalid" /\ endpoint # "POST /users" ->
            [status |-> HTTP_BAD_REQUEST, keys |-> {"error", "message", "user_id"},
             error |-> ISRAELI_ID_INVALID_FORMAT]
      [] outcome = "duplicate" ->
            [status |-> HTTP_CONFLICT, keys |-> {"error", "user_id"},
             error |-> USER_ALREADY_EXISTS]
      [] outcome = "storage" ->
            [status |-> HTTP_INTERNAL_SERVER_ERROR, keys |-> {"error", "message"},
             error |-> INTERNAL_SERVER_ERROR]
      [] outcome = "created" ->
            [status |-> HTTP_CREATED, keys |-> {"message", "user", "timestamp"},
             error |-> "none"]
      [] outcome = "absent" ->
            [status |-> HTTP_NOT_FOUND, keys |-> {"error", "user_id"},
             error |-> USER_NOT_FOUND]
      [] outcome = "found" ->
            [status |-> HTTP_OK, keys |-> {"message", "user", "timestamp"},
             error |-> "none"]
Shape(h) == [status |-> h.status, keys |-> h.keys, error |-> h.body.error]

\* C19: every response of POST /users and of GET /users/<id> has the status,
\* the keys and the error value of the outcome of its request, and no two
\* categories share an error value.
C19_OneShapePerOutcome ==
    [][/\ \A i, j \in 1..Len(ErrorValues) : ErrorValues[i] = ErrorValues[j] => i = j
       /\ (Responds /\ http'.endpoint = "POST /users") =>
             Shape(http') = StatedShape("POST /users",
                                        PostOutcome(http'.request, db, table))
       /\ (Responds /\ http'.endpoint = "GET /users/<id>") =>
             /\ Shape(http') = StatedShape("GET /users/<id>",
                                           GetOutcome(http'.request, db, table))
             /\ http'.status # HTTP_INTERNAL_SERVER_ERROR =>
                   http'.user_id = http'.request.path
      ]_vars

----------------------------------------------------------------------------
(* Properties of the values validate_israeli_id accepts *)

\* C21: validate_israeli_id returns valid only for a string of exactly 9
\* ASCII digits: an empty value, a value with any other character
\* (whitespace included) and a value whose length is not 9 are rejected.
C21_ValidOnlyNineAsciiDigits ==
    (ret.fn = "validate_israeli_id" /\ ret.valid) => IsNineDigits(arg)

\* the last digits with which validate_israeli_id accepts an 8-digit prefix
AcceptedCheckDigits(prefix) ==
    {d \in Digits : validate_israeli_id(Str(prefix \o <<d>>)).valid}

\* C22: replacing the last digit of a valid 9-digit id by any different
\* digit gives an id that validate_israeli_id rejects; equivalently, each
\* 8-digit prefix has exactly one check digit that makes the id valid.
C22_CheckDigitUnique ==
    (ret.fn = "validate_israeli_id" /\ IsNineDigits(arg)) =>
        LET prefix == SubSeq(arg.s, 1, 8)
        IN  /\ Cardinality(AcceptedCheckDigits(prefix)) = 1
            /\ ret.valid =>
                  \A d \in Digits \ {arg.s[9]} :
                      ~validate_israeli_id(Str(prefix \o <<d>>)).valid

C22_Witness ==
    /\ ret.fn = "validate_israeli_id"
    /\ IsNineDigits(arg)
    /\ ret.valid
    /\ arg.s[9] = "0"

----------------------------------------------------------------------------
(* Properties of validate_phone_number *)

PhoneReasons == <<PHONE_EMPTY, PHONE_NO_PLUS, PHONE_WRONG_LENGTH, PHONE_NOT_DIGITS>>

\* s without its leading and trailing blanks: the one stretch of s that has
\* only blanks before and after it and no blank at either end
TrimmedForm(s) ==
    LET ends == {p \in (1..(Len(s) + 1)) \X (0..Len(s)) :
                    /\ p[1] <= p[2] + 1
                    /\ \A k \in 1..(p[1] - 1) : s[k] = " "
                    /\ \A k \in (p[2] + 1)..Len(s) : s[k] = " "
                    /\ p[1] <= p[2] => (s[p[1]] # " " /\ s[p[2]] # " ")}
        p == CHOOSE q \in ends : TRUE
    IN  SubSeq(s, p[1], p[2])

\* the characters after the first are all in the set digits
DigitsAfterPlus(s, digits) == \A i \in 2..Len(s) : s[i] \in digits

\* the verdict of the stated rules on the characters s, digits being what
\* counts as a digit: "accepted" or the reason of the first rule that fails
StatedPhoneVerdict(s, digits) ==
    IF s = <<>> \/ s[1] # "+" THEN PHONE_NO_PLUS
    ELSE IF Len(s) < 9 \/ Len(s) > 17 THEN PHONE_WRONG_LENGTH
    ELSE IF ~DigitsAfterPlus(s, digits) THEN PHONE_NOT_DIGITS
    ELSE "accepted"

\* the stated rules applied to a value as it is given
StatedPhone(v) ==
    IF v.t # "str" \/ v.s = <<>> THEN PHONE_EMPTY
    ELSE StatedPhoneVerdict(v.s, Digits)

\* the stated rules applied to the trimmed value, a digit being any
\* character that str.isdigit() takes for one
StatedPhoneTrimmed(v) ==
    IF v.t # "str" \/ v.s = <<>> THEN PHONE_EMPTY
    ELSE StatedPhoneVerdict(TrimmedForm(v.s),
                            Digits \cup ArabicIndicDigits \cup SuperscriptDigits)

DigitsAfterPlusCount(v) ==
    IF v.t # "str" THEN -1
    ELSE LET s == TrimmedForm(v.s)
         IN  IF s # <<>> /\ s[1] = "+"
                   /\ DigitsAfterPlus(s, Digits \cup ArabicIndicDigits
                                             \cup SuperscriptDigits)
             THEN Len(s) - 1 ELSE -1

----------------------------------------------------------------------------
(* Properties of validate_name and validate_address *)

NameReasons == <<NAME_NOT_STRING, NAME_EMPTY, NAME_TOO_LONG>>
AddressReasons == <<ADDRESS_NOT_STRING, ADDRESS_EMPTY, ADDRESS_TOO_LONG>>

\* the verdict of the stated rules: "accepted", or the reason for a value
\* that is no string, is empty once trimmed, or is longer than max_len once
\* trimmed
StatedText(v, max_len, reasons) ==
    IF v.t # "str" THEN reasons[1]
    ELSE IF TrimmedForm(v.s) = <<>> THEN reasons[2]
    ELSE IF Len(TrimmedForm(v.s)) > max_len THEN reasons[3]
    ELSE "accepted"

\* C25: validate_name accepts exactly the strings whose trimmed form is
\* non-empty and at most 100 characters long, validate_address the same with
\* 200; each gives a distinct reason for a wrong type (tested first), an
\* empty or blank value and a value that is too long, so a trimmed length of
\* 100 (200) is accepted and 101 (201) is rejected.
C25_NameAndAddressRules ==
    /\ \A i, j \in 1..3 : NameReasons[i] = NameReasons[j] => i = j
    /\ \A i, j \in 1..3 : AddressReasons[i] = AddressReasons[j] => i = j
    /\ ret.fn = "validate_name" =>
          /\ ret.valid <=> StatedText(arg, 100, NameReasons) = "accepted"
          /\ ~ret.valid => ret.reason = StatedText(arg, 100, NameReasons)
          /\ (arg.t = "str" /\ Len(TrimmedForm(arg.s)) = 100) => ret.valid
          /\ (arg.t = "str" /\ Len(TrimmedForm(arg.s)) = 101) => ~ret.valid
    /\ ret.fn = "validate_address" =>
          /\ ret.valid <=> StatedText(arg, 200, AddressReasons) = "accepted"
          /\ ~ret.valid => ret.reason = StatedText(arg, 200, AddressReasons)
          /\ (arg.t = "str" /\ Len(TrimmedForm(arg.s)) = 200) => ret.valid
          /\ (arg.t = "str" /\ Len(TrimmedForm(arg.s)) = 201) => ~ret.valid

\* a name of 100 characters between two blanks is accepted
C25_Witness ==
    /\ ret.fn = "validate_name"
    /\ arg = Str(<<" ">> \o Rep("x", 100) \o <<" ">>)
    /\ ret.valid

----------------------------------------------------------------------------
(* Properties of sanitize_user_data *)

KeysOf(mapping) == {k \in DOMAIN mapping : mapping[k].t # "absent"}

\* C26: sanitize_user_data returns a new mapping with exactly the keys of
\* its input, every string value without its leading and trailing
\* whitespace and every other value as it was; the input mapping is not
\* modified, and sanitizing the output again returns an identical mapping.
C26_SanitizeTrimsStringsOnly ==
    [][ /\ (loaded.schema = "none" /\ loaded'.schema = "sanitize") =>
              /\ payload' = payload
              /\ KeysOf(loaded'.data) = KeysOf(payload)
              /\ \A k \in PayloadKeys :
                    IF payload[k].t = "str"
                    THEN loaded'.data[k] = Str(TrimmedForm(payload[k].s))
                    ELSE loaded'.data[k] = payload[k]
        /\ (loaded.schema = "sanitize" /\ loaded'.schema = "sanitize_again") =>
              /\ loaded'.data = loaded.data
              /\ payload' = payload
      ]_vars

\* a padded name and a non-string id have been sanitized twice
C26_Witness ==
    /\ loaded.schema = "sanitize_again"
    /\ payload["name"] = Str(Padded(<<"J">>, 1))
    /\ loaded.data["name"] = Str(<<"J">>)
    /\ payload["id"] = NonString
    /\ loaded.data["id"] = NonString
    /\ payload["extra"] = Str(<<"e">>)

----------------------------------------------------------------------------
(* Properties of the counts *)

RECURSIVE SumOver(_, _)
\* the sum of f[x] over the x in S
SumOver(f, S) ==
    IF S = {} THEN 0
    ELSE LET x == CHOOSE y \in S : TRUE IN f[x] + SumOver(f, S \ {x})

\* successful creates minus deletes that returned True
NetCreated == SumOver([id \in RepoIds |-> hist[id].created - hist[id].deleted], RepoIds)

\* C27: after any sequence of successful and failed creates, updates and
\* deletes, get_user_count() equals the number of ids get_all_user_ids()
\* returns, which equals the successful creates minus the deletes that
\* returned True; and user_exists(id) is True exactly when get_user_by_id(id)
\* returns a record.
C27_CountsAgree ==
    /\ (listing.op = "get_user_count" /\ result.outcome = "ok") =>
          /\ listing.count = Len(get_all_user_ids(table))
          /\ listing.count = NetCreated
    /\ (listing.op = "get_all_user_ids" /\ result.outcome = "ok") =>
          Len(listing.ids) = NetCreated
    /\ (result.op = "user_exists" /\ result.outcome \in {"True", "False"}) =>
          (result.outcome = "True" <=> query_first(table, result.user_id) # NoRow)
    /\ (result.op = "get_user_by_id" /\ result.outcome \in {"ok", "None"}) =>
          /\ result.outcome = "ok" <=> result.user # NoRow
          /\ result.outcome = "ok" <=> RowsWithId(table, result.user_id) # {}

\* a count is taken after two creates succeeded and a delete returned True
C27_Witness ==
    /\ listing.op = "get_user_count"
    /\ result.outcome = "ok"
    /\ listing.count = 1
    /\ NetCreated = 1
    /\ \E id \in RepoIds : hist[id].deleted = 1

----------------------------------------------------------------------------
(* Properties of session_scope *)

\* C28: every repository operation runs in one session_scope, which commits
\* once when the body completes, rolls back when the body or the commit
\* raises and closes the session either way; so a flushed row is not in the
\* store before the commit, a create that returns has stored its row once,
\* and an operation that raises leaves the store as it was, with nothing
\* pending and the write lock free.
C28_SessionScopeAtomic ==
    [][ /\ (pc[1] = "flush" /\ pc'[1] = "commit") => table' = table
        /\ (result' # result /\ result'.outcome \in {"DatabaseError", "IntegrityError"}) =>
              /\ table' = table
              /\ txn'[1] = NoRow
              /\ lock' = 0
        /\ (result' # result /\ result'.op = "create_user" /\ result'.outcome = "ok") =>
              /\ table' = Append(table, result'.user)
              /\ Cardinality(RowsWithId(table', result'.user_id)) = 1
              /\ txn'[1] = NoRow
              /\ lock' = 0
      ]_vars

\* a create_user whose INSERT was flushed and whose commit failed: the
\* clock was read for a row, and no row was ever stored
C28_Witness ==
    /\ result.op = "create_user"
    /\ result.outcome = "DatabaseError"
    /\ clock > TicksPerSecond
    /\ table = <<>>
    /\ \A id \in RepoIds : hist[id].created = 0
    /\ pc[1] = "idle"

----------------------------------------------------------------------------
(* Properties of the records the HTTP routes store *)

\* the four fields of row each pass their validator
PassesValidators(row) ==
    /\ validate_israeli_id(Str(row.id)).valid
    /\ validate_name(Str(row.name)).valid
    /\ validate_phone_number(Str(row.phone)).valid
    /\ validate_address(Str(row.address)).valid

\* row holds the values of the JSON object body, trimmed
IsTrimmedBody(row, body) ==
    /\ \A f \in CreateFields : body[f].t = "str"
    /\ row.id = TrimmedForm(body["id"].s)
    /\ row.name = TrimmedForm(body["name"].s)
    /\ row.phone = TrimmedForm(body["phone"].s)
    /\ row.address = TrimmedForm(body["address"].s)

\* C29: a record stored as the result of a POST /users request has an id,
\* name, phone and address that each pass their validator and equal the
\* values of the request with leading and trailing whitespace removed; no
\* request to a registered route changes or removes a stored record.
C29_StoredRecordsValidAndKept ==
    [][ /\ Len(table') >= Len(table)
        /\ \A i \in 1..Len(table) : table'[i] = table[i]
        /\ table' # table =>
              /\ Len(table') = Len(table) + 1
              /\ http'.endpoint = "POST /users"
              /\ http'.status = HTTP_CREATED
              /\ PassesValidators(table'[Len(table')])
              /\ IsTrimmedBody(table'[Len(table')], http'.request.body)
      ]_vars

\* a record is stored from a body with padded values, and a GET has been
\* answered since
C29_Witness ==
    /\ Len(table) = 1
    /\ table[1].id = ID_123456782
    /\ table[1].phone = PHONE_VALID
    /\ table[1].address = <<"A">>
    /\ http.endpoint = "GET /users/<id>"
    /\ http.status = HTTP_OK

----------------------------------------------------------------------------
(* Properties of MigrationManager.rollback *)

\* the versions of S in reverse list order
ReverseListOrder(S) ==
    LET up == SelectSeq(migrations, LAMBDA m : m \in S)
    IN  [i \in 1..Len(up) |-> up[Len(up) + 1 - i]]

\* C30: rollback(target_version) rolls back to the target version: it
\* reverts applied migrations in reverse list order, down() and then the
\* removal of the row, so that after it returns True the applied versions
\* are the previously applied ones up to and including target_version;
\* with no target it reverts all, with nothing applied it calls no down().
C30_RollbackToTargetVersion ==
    (run.cmd = "rollback" /\ run.returned = "True") =>
        /\ applied = IF run.target = NoTarget THEN {}
                     ELSE {v \in run.before : VersionLE(v, run.target)}
        /\ run.calls = ReverseListOrder(run.before \ applied)
        /\ run.before = {} => run.calls = <<>>

====
